---- MODULE Spec2Model ----
(***************************************************************************)
(* A model of the signal-and-risk decision core of VOLT-X: the Risk        *)
(* Manager (core/risk.py), the trader's entry and exit (core/trader.py),   *)
(* the orchestration loop's handling of BUY signals and of held positions  *)
(* (main.py) and the volume scanner's per-symbol state machine             *)
(* (core/scanner.py).                                                      *)
(*                                                                         *)
(* Numbers.  The program computes in binary floating point; the model      *)
(* computes in fixed point with truncating division:                       *)
(*   - money (KRW) in whole units;                                         *)
(*   - PnL fractions in units of 1/PnlScale (parts per million);           *)
(*   - position-size fractions in units of 1/PctScale;                     *)
(*   - quantities in units of 1/QtyScale.                                  *)
(* The wall clock the code reads is `today' (date.today(), a day number)   *)
(* and `clock' (datetime.now(), in minutes).                               *)
(***************************************************************************)
EXTENDS Integers, Sequences, FiniteSets, TLC

VARIABLES
    risk,          \* RiskManager: daily_pnl_pct, consecutive_losses, last_reset_date, is_trading_halted
    today,         \* date.today(), a day number
    clock,         \* datetime.now(), in minutes
    mode,          \* VoltxTrader.mode: "paper" or "live"
    positions,     \* VoltxTrader.positions: symbol -> Position, NoPosition when absent
    paper_balance, \* VoltxTrader.paper_balance
    loop,          \* main(): pc, now, hot_symbols, current_regime, last_universe_update,
                   \*   last_regime_update, last_sell_times, pending, held_symbols,
                   \*   current_price_map
    states,        \* VolumeScanner.states: symbol -> ScannerState
    detected_at,   \* history: symbol -> clock reading when it was last marked exhausted
    last_call,     \* history: the last operation executed, its arguments and its result
    n_update_pnl,  \* history: number of RiskManager.update_pnl invocations so far
    n_closed,      \* history: number of positions removed from the position map so far
    n_entries      \* history: number of positions created so far

envVars    == <<today, clock>>
traderVars == <<mode, positions, paper_balance>>
scanVars   == <<states, detected_at>>
histVars   == <<last_call, n_update_pnl, n_closed, n_entries>>
vars       == <<risk, today, clock, mode, positions, paper_balance, loop, states,
                detected_at,
                last_call, n_update_pnl, n_closed, n_entries>>

(***************************************************************************)
(* Bounds of the model.                                                    *)
(***************************************************************************)
MaxDay     == 1   \* date.today() takes the values 0 .. MaxDay
MaxUpdates == 4   \* update_pnl is invoked at most this many times in a run

(***************************************************************************)
(* Fixed-point units.                                                      *)
(***************************************************************************)
PnlScale == 1000 * 1000      \* daily_pnl_pct = 1.0 is PnlScale
PctScale == 100 * 1000       \* final_pct = 1.0 is PctScale
QtyScale == 100 * 100        \* quantity = 1.0 is QtyScale

\* <<q, r>> with r * b = q * c + rem, computed by halving b so that no
\* intermediate value leaves the 32-bit range: 0 <= r < c, b >= 0.
RECURSIVE PartMulDiv(_, _, _)
PartMulDiv(r, b, c) ==
    IF b = 0 THEN <<0, 0>>
    ELSE \* the half is computed once: h is bound to its value
         CHOOSE p \in { LET t == 2 * h[2] + (b % 2) * r
                        IN  <<2 * h[1] + (t \div c), t % c>> :
                        h \in {PartMulDiv(r, b \div 2, c)} } : TRUE

\* floor(a * b / c) for b >= 0, c > 0: the fixed-point product/quotient.
MaxInt == 2147483646 + 1   \* the largest integer the checker computes with
MulDiv(a, b, c) ==
    \* the operands are computed once: x, y, z are bound to their values
    CHOOSE v \in { (x \div z) * y
                     + (IF y = 0 \/ (x % z) <= MaxInt \div y
                        THEN ((x % z) * y) \div z
                        ELSE PartMulDiv(x % z, y, z)[1]) :
                   x \in {a}, y \in {b}, z \in {c} } : TRUE

Min(a, b) == IF a <= b THEN a ELSE b

(***************************************************************************)
(* RiskManager (core/risk.py)                                              *)
(***************************************************************************)
Regimes      == {"BULL", "FLAT", "BEAR"}
RegimeInputs == Regimes \cup {"UNKNOWN"}     \* any other string a caller may pass
Tiers        == {"L1", "L2"}
StrategyTypes == {"DIP", "VBS"}

\* self.max_daily_loss_pct = -0.05
max_daily_loss_pct == -((5 * PnlScale) \div 100)

\* the streak at which the circuit breaker trips
MaxConsecutiveLosses == 4

\* minimum order size tested by calculate_position_size
MinOrderKrw == 6000

\* RiskManager.__init__ at date d
RiskInit(d) ==
    [daily_pnl_pct       |-> 0,
     consecutive_losses  |-> 0,
     last_reset_date     |-> d,
     is_trading_halted   |-> FALSE]

\* RiskManager._reset_daily_if_needed, called at date d
reset_daily_if_needed(r, d) ==
    IF d > r.last_reset_date
    THEN [daily_pnl_pct      |-> 0,
          consecutive_losses |-> 0,
          last_reset_date    |-> d,
          is_trading_halted  |-> FALSE]
    ELSE r

\* update_pnl with the daily limit tested exclusively (< instead of <=)
update_pnl_exclusive(r, d, trade_pnl_pct) ==
    LET r0   == reset_daily_if_needed(r, d)
        pnl  == r0.daily_pnl_pct + trade_pnl_pct
        loss == IF trade_pnl_pct < 0 THEN r0.consecutive_losses + 1 ELSE 0
        halt == \/ r0.is_trading_halted
                \/ pnl < max_daily_loss_pct
                \/ loss >= MaxConsecutiveLosses
    IN  [daily_pnl_pct      |-> pnl,
         consecutive_losses |-> loss,
         last_reset_date    |-> r0.last_reset_date,
         is_trading_halted  |-> halt]

\* update_pnl that assigns the flag from the limits instead of only setting it
update_pnl_recomputed(r, d, trade_pnl_pct) ==
    LET r0   == reset_daily_if_needed(r, d)
        pnl  == r0.daily_pnl_pct + trade_pnl_pct
        loss == IF trade_pnl_pct < 0 THEN r0.consecutive_losses + 1 ELSE 0
        halt == \/ pnl <= max_daily_loss_pct
                \/ loss >= MaxConsecutiveLosses
    IN  [daily_pnl_pct      |-> pnl,
         consecutive_losses |-> loss,
         last_reset_date    |-> r0.last_reset_date,
         is_trading_halted  |-> halt]

\* update_pnl with the daily reset made after the trade is counted
update_pnl_reset_last(r, d, trade_pnl_pct) ==
    LET pnl  == r.daily_pnl_pct + trade_pnl_pct
        loss == IF trade_pnl_pct < 0 THEN r.consecutive_losses + 1 ELSE 0
        halt == \/ r.is_trading_halted
                \/ pnl <= max_daily_loss_pct
                \/ loss >= MaxConsecutiveLosses
    IN  reset_daily_if_needed([daily_pnl_pct      |-> pnl,
                               consecutive_losses |-> loss,
                               last_reset_date    |-> r.last_reset_date,
                               is_trading_halted  |-> halt], d)

\* update_pnl with the streak limit tested exclusively (> 4 instead of >= 4)
update_pnl_streak_exclusive(r, d, trade_pnl_pct) ==
    LET r0   == reset_daily_if_needed(r, d)
        pnl  == r0.daily_pnl_pct + trade_pnl_pct
        loss == IF trade_pnl_pct < 0 THEN r0.consecutive_losses + 1 ELSE 0
        halt == \/ r0.is_trading_halted
                \/ pnl <= max_daily_loss_pct
                \/ loss > MaxConsecutiveLosses
    IN  [daily_pnl_pct      |-> pnl,
         consecutive_losses |-> loss,
         last_reset_date    |-> r0.last_reset_date,
         is_trading_halted  |-> halt]

\* RiskManager.update_pnl(trade_pnl_pct), called at date d: the new state
update_pnl(r, d, trade_pnl_pct) ==
    LET r0   == reset_daily_if_needed(r, d)
        pnl  == r0.daily_pnl_pct + trade_pnl_pct
        loss == IF trade_pnl_pct < 0 THEN r0.consecutive_losses + 1 ELSE 0
        halt == \/ r0.is_trading_halted
                \/ pnl <= max_daily_loss_pct
                \/ loss >= MaxConsecutiveLosses
    IN  [daily_pnl_pct      |-> pnl,
         consecutive_losses |-> loss,
         last_reset_date    |-> r0.last_reset_date,
         is_trading_halted  |-> halt]

\* base_pct = 0.03 if symbol_tier == "L1" else 0.015, in 1/PctScale
base_pct(symbol_tier) == IF symbol_tier = "L1" THEN 3000 ELSE 1500

\* regime_factor = {...}.get(regime, 1.0), in tenths
regime_factor(regime) ==
    CASE regime = "BULL" -> 12
      [] regime = "FLAT" -> 10
      [] regime = "BEAR" -> 5
      [] OTHER           -> 10

\* loss_factor with the reductions starting one loss early
loss_factor_early(consecutive_losses) ==
    CASE consecutive_losses = 1 -> 8
      [] consecutive_losses = 2 -> 5
      [] OTHER                  -> 10

\* loss_factor by consecutive_losses, in tenths
loss_factor(consecutive_losses) ==
    CASE consecutive_losses = 1 -> 10
      [] consecutive_losses = 2 -> 8
      [] consecutive_losses = 3 -> 5
      [] OTHER                  -> 10

\* final_pct = min(base_pct * regime_factor * loss_factor, 0.05), in 1/PctScale
final_pct(r, regime, symbol_tier) ==
    Min((base_pct(symbol_tier) * regime_factor(regime)
            * loss_factor(r.consecutive_losses)) \div 100,
        (5 * PctScale) \div 100)

\* position_size without the minimum-order test
position_size_no_floor(r, account_balance, regime, symbol_tier) ==
    IF r.is_trading_halted THEN 0
    ELSE MulDiv(account_balance, final_pct(r, regime, symbol_tier), PctScale)

\* the value calculate_position_size returns in risk state r (after its reset)
position_size(r, account_balance, regime, symbol_tier) ==
    IF r.is_trading_halted THEN 0
    ELSE LET size_krw == MulDiv(account_balance,
                                final_pct(r, regime, symbol_tier), PctScale)
         IN  IF size_krw < MinOrderKrw THEN 0 ELSE size_krw

\* RiskManager.calculate_position_size, called at date d:
\* the new risk state and the returned size
calculate_position_size(r, d, account_balance, regime, symbol_tier) ==
    LET r0 == reset_daily_if_needed(r, d)
    IN  [risk |-> r0,
         ret  |-> position_size(r0, account_balance, regime, symbol_tier)]

\* check_entry_allowed that ignores the halt flag
check_entry_allowed_always(r, regime, strategy_type) == TRUE

\* RiskManager.check_entry_allowed(regime, strategy_type): the returned flag
check_entry_allowed(r, regime, strategy_type) ==
    IF r.is_trading_halted THEN FALSE ELSE TRUE

(***************************************************************************)
(* VoltxTrader (core/trader.py)                                            *)
(***************************************************************************)
Symbols == {"KRW-AAA", "KRW-BBB"}

\* the markets get_top_movers can return in the runs of Spec
Markets == {"KRW-AAA"}

\* a dict with no keys
EmptyDict == [k \in {} |-> 0]

\* the dict d without key k (del d[k])
DictDel(d, k) == [x \in (DOMAIN d) \ {k} |-> d[x]]

\* the dict d with d[k] = v
DictSet(d, k, v) == [x \in (DOMAIN d) \cup {k} |-> IF x = k THEN v ELSE d[x]]

\* Position.__init__ followed by _entry's pos.sl_price = exec_price * 0.985
\* (entry_time and tp_price are never read and are left out)
Position(symbol, entry_price, quantity, strategy_name, regime) ==
    [symbol        |-> symbol,
     entry_price   |-> entry_price,
     quantity      |-> quantity,
     strategy_name |-> strategy_name,
     entry_regime  |-> regime,
     highest_price |-> entry_price,
     sl_price      |-> MulDiv(entry_price, 985, 1000)]

\* the trader object with its risk manager, as one value
Trader == [mode          |-> mode,
           positions     |-> positions,
           paper_balance |-> paper_balance,
           risk          |-> risk]

\* VoltxTrader.get_balance; live_balance is what client.get_balance("KRW") returns
get_balance(t, live_balance) ==
    IF t.mode = "paper" THEN t.paper_balance ELSE live_balance

\* the result of a trader operation: the returned flag, the trader afterwards,
\* and how many place_order / update_pnl calls and position removals it made
Result(ret, t, orders, updates, closed) ==
    [ret |-> ret, trader |-> t, orders |-> orders, updates |-> updates,
     closed |-> closed]

\* _entry without the test for an open position of the symbol
entry_no_held_test(t, d, symbol, price, regime, tier, strategy_name, live_balance, order_ok) ==
    LET balance  == get_balance(t, live_balance)
        c        == calculate_position_size(t.risk, d, balance, regime, tier)
        t1       == [t EXCEPT !.risk = c.risk]
        size_krw == c.ret
        quantity == MulDiv(size_krw, QtyScale, price)
        pos      == Position(symbol, price, quantity, strategy_name, regime)
    IN  IF size_krw <= 0
        THEN Result(FALSE, t1, 0, 0, 0)
        ELSE IF t.mode = "live"
        THEN IF order_ok
             THEN Result(TRUE,
                         [t1 EXCEPT !.positions = DictSet(@, symbol, pos)],
                         1, 0, 0)
             ELSE Result(FALSE, t1, 1, 0, 0)
        ELSE Result(TRUE,
                    [t1 EXCEPT !.positions = DictSet(@, symbol, pos),
                               !.paper_balance = @ - size_krw],
                    0, 0, 0)

\* _entry with the size computed before the test for an open position
entry_size_first(t, d, symbol, price, regime, tier, strategy_name, live_balance, order_ok) ==
    LET balance  == get_balance(t, live_balance)
        c        == calculate_position_size(t.risk, d, balance, regime, tier)
        t1       == [t EXCEPT !.risk = c.risk]
        size_krw == c.ret
        quantity == MulDiv(size_krw, QtyScale, price)
        pos      == Position(symbol, price, quantity, strategy_name, regime)
    IN  IF size_krw <= 0 \/ symbol \in DOMAIN t.positions
        THEN Result(FALSE, t1, 0, 0, 0)
        ELSE IF t.mode = "live"
        THEN IF order_ok
             THEN Result(TRUE,
                         [t1 EXCEPT !.positions = DictSet(@, symbol, pos)],
                         1, 0, 0)
             ELSE Result(FALSE, t1, 1, 0, 0)
        ELSE Result(TRUE,
                    [t1 EXCEPT !.positions = DictSet(@, symbol, pos),
                               !.paper_balance = @ - size_krw],
                    0, 0, 0)

\* _entry that takes the 5% cap from the paper balance instead of the size
entry_cap_deducted(t, d, symbol, price, regime, tier, strategy_name, live_balance, order_ok) ==
    IF symbol \in DOMAIN t.positions
    THEN Result(FALSE, t, 0, 0, 0)
    ELSE LET balance  == get_balance(t, live_balance)
             c        == calculate_position_size(t.risk, d, balance, regime, tier)
             t1       == [t EXCEPT !.risk = c.risk]
             size_krw == c.ret
             quantity == MulDiv(size_krw, QtyScale, price)
             pos      == Position(symbol, price, quantity, strategy_name, regime)
         IN  IF size_krw <= 0
             THEN Result(FALSE, t1, 0, 0, 0)
             ELSE IF t.mode = "live"
             THEN IF order_ok
                  THEN Result(TRUE,
                              [t1 EXCEPT !.positions = DictSet(@, symbol, pos)],
                              1, 0, 0)
                  ELSE Result(FALSE, t1, 1, 0, 0)
             ELSE Result(TRUE,
                         [t1 EXCEPT !.positions = DictSet(@, symbol, pos),
                                    !.paper_balance = @ - MulDiv(balance, 5, 100)],
                         0, 0, 0)

\* VoltxTrader._entry; order_ok is FALSE when place_order raises
entry(t, d, symbol, price, regime, tier, strategy_name, live_balance, order_ok) ==
    IF symbol \in DOMAIN t.positions
    THEN Result(FALSE, t, 0, 0, 0)
    ELSE LET balance  == get_balance(t, live_balance)
             c        == calculate_position_size(t.risk, d, balance, regime, tier)
             t1       == [t EXCEPT !.risk = c.risk]
             size_krw == c.ret
             quantity == MulDiv(size_krw, QtyScale, price)
             pos      == Position(symbol, price, quantity, strategy_name, regime)
         IN  IF size_krw <= 0
             THEN Result(FALSE, t1, 0, 0, 0)
             ELSE IF t.mode = "live"
             THEN IF order_ok
                  THEN Result(TRUE,
                              [t1 EXCEPT !.positions = DictSet(@, symbol, pos)],
                              1, 0, 0)
                  ELSE Result(FALSE, t1, 1, 0, 0)
             ELSE Result(TRUE,
                         [t1 EXCEPT !.positions = DictSet(@, symbol, pos),
                                    !.paper_balance = @ - size_krw],
                         0, 0, 0)

\* the paper branch of _exit: net proceeds and net PnL fraction of selling
\* position pos at price
PaperExit(pos, price) ==
    LET exit_qty      == pos.quantity
        \* real_exit_price = price * (1 - slippage_rate), in 1/1000 KRW
        real_exit_1000 == price * 999
        proceeds_real == MulDiv(exit_qty, real_exit_1000, QtyScale * 1000)
        fee_amt       == MulDiv(proceeds_real, 5, 10000)
        net_proceeds  == proceeds_real - fee_amt
        cost_basis    == MulDiv(pos.quantity, pos.entry_price, QtyScale)
        net_pnl       == net_proceeds - cost_basis
    IN  [net_proceeds |-> net_proceeds,
         net_pnl_pct  |-> MulDiv(net_pnl, PnlScale, cost_basis)]

\* _exit that drops the position although the sell order failed
exit_drop_on_failure(t, d, symbol, price, order_ok) ==
    IF symbol \notin DOMAIN t.positions
    THEN Result(FALSE, t, 0, 0, 0)
    ELSE LET pos == t.positions[symbol]
         IN  IF t.mode = "live"
             THEN IF order_ok
                  THEN Result(TRUE,
                              [t EXCEPT !.positions = DictDel(@, symbol)],
                              1, 0, 1)
                  ELSE Result(FALSE,
                              [t EXCEPT !.positions = DictDel(@, symbol)],
                              1, 0, 0)
             ELSE LET x == PaperExit(pos, price)
                  IN  Result(TRUE,
                             [t EXCEPT !.paper_balance = @ + x.net_proceeds,
                                       !.risk = update_pnl(@, d, x.net_pnl_pct),
                                       !.positions = DictDel(@, symbol)],
                             0, 1, 1)

\* _exit that reports a trade to the Risk Manager as a loss only when it
\* lost more than 2%
exit_small_loss_unreported(t, d, symbol, price, order_ok) ==
    IF symbol \notin DOMAIN t.positions
    THEN Result(FALSE, t, 0, 0, 0)
    ELSE LET pos == t.positions[symbol]
         IN  IF t.mode = "live"
             THEN IF order_ok
                  THEN Result(TRUE,
                              [t EXCEPT !.positions = DictDel(@, symbol)],
                              1, 0, 1)
                  ELSE Result(FALSE, t, 1, 0, 0)
             ELSE LET x == PaperExit(pos, price)
                      reported == IF x.net_pnl_pct < -20000
                                  THEN x.net_pnl_pct ELSE 0
                  IN  Result(TRUE,
                             [t EXCEPT !.paper_balance = @ + x.net_proceeds,
                                       !.risk = update_pnl(@, d, reported),
                                       !.positions = DictDel(@, symbol)],
                             0, 1, 1)

\* VoltxTrader._exit; order_ok is FALSE when place_order raises
exit(t, d, symbol, price, order_ok) ==
    IF symbol \notin DOMAIN t.positions
    THEN Result(FALSE, t, 0, 0, 0)
    ELSE LET pos == t.positions[symbol]
         IN  IF t.mode = "live"
             THEN IF order_ok
                  THEN Result(TRUE,
                              [t EXCEPT !.positions = DictDel(@, symbol)],
                              1, 0, 1)
                  ELSE Result(FALSE, t, 1, 0, 0)
             ELSE LET x == PaperExit(pos, price)
                  IN  Result(TRUE,
                             [t EXCEPT !.paper_balance = @ + x.net_proceeds,
                                       !.risk = update_pnl(@, d, x.net_pnl_pct),
                                       !.positions = DictDel(@, symbol)],
                             0, 1, 1)

\* VoltxTrader.execute_signal
execute_signal(t, d, action, symbol, current_price, regime, tier, strategy_name, live_balance, order_ok) ==
    IF action = "BUY"
    THEN entry(t, d, symbol, current_price, regime, tier, strategy_name,
               live_balance, order_ok)
    ELSE IF action \in {"SELL", "SL", "TP"}
    THEN exit(t, d, symbol, current_price, order_ok)
    ELSE Result(FALSE, t, 0, 0, 0)

\* update_positions that stores the last price seen
update_positions_last_price(pos_map, current_prices) ==
    [sym \in DOMAIN pos_map |->
        IF sym \in DOMAIN current_prices
        THEN [pos_map[sym] EXCEPT !.highest_price = current_prices[sym]]
        ELSE pos_map[sym]]

\* VoltxTrader.update_positions: the position map afterwards
update_positions(pos_map, current_prices) ==
    [sym \in DOMAIN pos_map |->
        IF sym \in DOMAIN current_prices
             /\ current_prices[sym] > pos_map[sym].highest_price
        THEN [pos_map[sym] EXCEPT !.highest_price = current_prices[sym]]
        ELSE pos_map[sym]]

(***************************************************************************)
(* VolumeScanner (core/scanner.py)                                         *)
(***************************************************************************)
spike_threshold  == 3    \* rel_vol >= 3.0
climax_threshold == 5    \* rel_vol >= 5.0
MinCandles       == 20   \* len(df) < 20 is not analysed
RsiOverbought    == 70   \* rsi >= 70
CooldownMinutes  == 60   \* timedelta(minutes=60)

\* ScannerState(symbol) as constructed; exhausted_until is None while
\* has_until is FALSE
ScannerState ==
    [volume_spike    |-> FALSE,
     volume_climax   |-> FALSE,
     is_exhausted    |-> FALSE,
     has_until       |-> FALSE,
     exhausted_until |-> 0]

\* what fetch_ohlcv(symbol, '3m', start, end) can return: n candles, the last
\* candle, the mean volume of the 20 candles before it and the RSI(14) of
\* the closes
Frame(n, volume, prev_vol_avg, open, high, low, close, rsi) ==
    [n |-> n, volume |-> volume, prev_vol_avg |-> prev_vol_avg,
     open |-> open, high |-> high, low |-> low, close |-> close, rsi |-> rsi]

Frames ==
    { Frame( 0,   0,   0,   0,   0,   0,   0,  0),   \* empty
      Frame(10, 500, 100, 100, 110, 100, 104, 70),   \* too few candles
      Frame(33, 100, 100, 100, 101,  99, 100, 50),   \* quiet
      Frame(33,   2,   0, 100, 101,  99, 100, 50),   \* no volume before
      Frame(33, 300, 100, 100, 110, 100, 104, 75),   \* spike, rel_vol = 3.0
      Frame(33, 500, 100, 100, 110, 100, 110, 80),   \* rel_vol = 5.0, closes at the high
      Frame(33, 500, 100, 100, 110, 100, 104, 69),   \* climax, RSI below 70
      Frame(33, 500, 100, 100, 110, 100, 104, 70) }  \* climax, RSI 70

\* the cooldown two minutes short
exhausted_deadline_short(now) == now + CooldownMinutes - 2

\* datetime.now() + timedelta(minutes=60)
exhausted_deadline(now) == now + CooldownMinutes

\* the timeout test with the deadline itself counted as over
cooldown_over_inclusive(state, now) ==
    state.has_until /\ now >= state.exhausted_until

\* state.exhausted_until and datetime.now() > state.exhausted_until
cooldown_over(state, now) ==
    state.has_until /\ now > state.exhausted_until

\* rel_vol >= threshold, with rel_vol = last volume / prev_vol_avg and a
\* prev_vol_avg of 0 replaced by 1
RelVolAtLeast(df, threshold) ==
    LET avg == IF df.prev_vol_avg = 0 THEN 1 ELSE df.prev_vol_avg
    IN  df.volume >= threshold * avg

\* a shape test that every candle passes
ReversalCandle_any(df) == TRUE

\* upper_shadow_ratio >= 0.5 or drop_from_high >= 0.03 for the last candle
ReversalCandle(df) ==
    LET upper_shadow == df.high - (IF df.close >= df.open THEN df.close ELSE df.open)
        total_range  == df.high - df.low
    IN  \/ total_range > 0 /\ 2 * upper_shadow >= total_range
        \/ (df.high - df.close) * 100 >= 3 * df.high

\* the body of the loop with the candles analysed before their number is
\* tested
scan_symbol_short_analysed(state, now, df) ==
    IF state.is_exhausted /\ ~cooldown_over(state, now)
    THEN [state |-> state, status |-> "EXHAUSTED",
          cleared |-> FALSE, marked |-> FALSE]
    ELSE
      LET cleared == state.is_exhausted
          s1 == [state EXCEPT !.is_exhausted = FALSE]
          s2 == IF RelVolAtLeast(df, spike_threshold)
                THEN [s1 EXCEPT !.volume_spike = TRUE] ELSE s1
          is_climax == RelVolAtLeast(df, climax_threshold) /\ ReversalCandle(df)
          s3 == IF is_climax THEN [s2 EXCEPT !.volume_climax = TRUE] ELSE s2
      IN  IF df.n < MinCandles
          THEN [state |-> s3, status |-> "NORMAL",
                cleared |-> cleared, marked |-> FALSE]
          ELSE IF is_climax /\ df.rsi >= RsiOverbought
          THEN [state |-> [s3 EXCEPT !.is_exhausted = TRUE,
                                     !.has_until = TRUE,
                                     !.exhausted_until = exhausted_deadline(now)],
                status |-> "EXHAUSTED", cleared |-> cleared, marked |-> TRUE]
          ELSE [state |-> s3,
                status |-> IF s3.volume_spike THEN "TREND_ACTIVE" ELSE "NORMAL",
                cleared |-> cleared, marked |-> FALSE]

\* the body of the loop with the spike detection left out when the candles
\* make a climax
scan_symbol_climax_alone(state, now, df) ==
    IF state.is_exhausted /\ ~cooldown_over(state, now)
    THEN [state |-> state, status |-> "EXHAUSTED",
          cleared |-> FALSE, marked |-> FALSE]
    ELSE
      LET cleared == state.is_exhausted
          s1 == [state EXCEPT !.is_exhausted = FALSE]
          is_climax == RelVolAtLeast(df, climax_threshold) /\ ReversalCandle(df)
          s2 == IF RelVolAtLeast(df, spike_threshold) /\ ~is_climax
                THEN [s1 EXCEPT !.volume_spike = TRUE] ELSE s1
          s3 == IF is_climax THEN [s2 EXCEPT !.volume_climax = TRUE] ELSE s2
      IN  IF df.n < MinCandles
          THEN [state |-> s1, status |-> "NORMAL",
                cleared |-> cleared, marked |-> FALSE]
          ELSE IF is_climax /\ df.rsi >= RsiOverbought
          THEN [state |-> [s3 EXCEPT !.is_exhausted = TRUE,
                                     !.has_until = TRUE,
                                     !.exhausted_until = exhausted_deadline(now)],
                status |-> "EXHAUSTED", cleared |-> cleared, marked |-> TRUE]
          ELSE [state |-> s3,
                status |-> IF s3.volume_spike THEN "TREND_ACTIVE" ELSE "NORMAL",
                cleared |-> cleared, marked |-> FALSE]

\* the body of the loop with the status taken from the candles of this scan
\* alone
scan_symbol_spike_now(state, now, df) ==
    IF state.is_exhausted /\ ~cooldown_over(state, now)
    THEN [state |-> state, status |-> "EXHAUSTED",
          cleared |-> FALSE, marked |-> FALSE]
    ELSE
      LET cleared == state.is_exhausted
          s1 == [state EXCEPT !.is_exhausted = FALSE]
          s2 == IF RelVolAtLeast(df, spike_threshold)
                THEN [s1 EXCEPT !.volume_spike = TRUE] ELSE s1
          is_climax == RelVolAtLeast(df, climax_threshold) /\ ReversalCandle(df)
          s3 == IF is_climax THEN [s2 EXCEPT !.volume_climax = TRUE] ELSE s2
      IN  IF df.n < MinCandles
          THEN [state |-> s1, status |-> "NORMAL",
                cleared |-> cleared, marked |-> FALSE]
          ELSE IF is_climax /\ df.rsi >= RsiOverbought
          THEN [state |-> [s3 EXCEPT !.is_exhausted = TRUE,
                                     !.has_until = TRUE,
                                     !.exhausted_until = exhausted_deadline(now)],
                status |-> "EXHAUSTED", cleared |-> cleared, marked |-> TRUE]
          ELSE [state |-> s3,
                status |-> IF RelVolAtLeast(df, spike_threshold)
                           THEN "TREND_ACTIVE" ELSE "NORMAL",
                cleared |-> cleared, marked |-> FALSE]

\* the body of the loop of VolumeScanner.scan for one symbol whose state is
\* state, at clock reading now, when fetch_ohlcv would return df; the new
\* state, the status reported, and whether the cooldown was reset and whether
\* the symbol was marked exhausted
scan_symbol(state, now, df) ==
    IF state.is_exhausted /\ ~cooldown_over(state, now)
    THEN [state |-> state, status |-> "EXHAUSTED",
          cleared |-> FALSE, marked |-> FALSE]
    ELSE
      LET cleared == state.is_exhausted
          s1 == [state EXCEPT !.is_exhausted = FALSE]
          s2 == IF RelVolAtLeast(df, spike_threshold)
                THEN [s1 EXCEPT !.volume_spike = TRUE] ELSE s1
          is_climax == RelVolAtLeast(df, climax_threshold) /\ ReversalCandle(df)
          s3 == IF is_climax THEN [s2 EXCEPT !.volume_climax = TRUE] ELSE s2
      IN  IF df.n < MinCandles
          THEN [state |-> s1, status |-> "NORMAL",
                cleared |-> cleared, marked |-> FALSE]
          ELSE IF is_climax /\ df.rsi >= RsiOverbought
          THEN [state |-> [s3 EXCEPT !.is_exhausted = TRUE,
                                     !.has_until = TRUE,
                                     !.exhausted_until = exhausted_deadline(now)],
                status |-> "EXHAUSTED", cleared |-> cleared, marked |-> TRUE]
          ELSE [state |-> s3,
                status |-> IF s3.volume_spike THEN "TREND_ACTIVE" ELSE "NORMAL",
                cleared |-> cleared, marked |-> FALSE]

\* VolumeScanner.scan(symbols) on the state map sts: dfs gives the candles
\* fetch_ohlcv would return for each symbol
scan(sts, symbols, now, dfs) ==
    LET one(sym) == scan_symbol(IF sym \in DOMAIN sts THEN sts[sym] ELSE ScannerState,
                                now, dfs[sym])
    IN  [states  |-> [sym \in DOMAIN sts \cup symbols |->
                         IF sym \in symbols THEN one(sym).state ELSE sts[sym]],
         results |-> [sym \in symbols |-> one(sym).status],
         cleared |-> {sym \in symbols : one(sym).cleared},
         marked  |-> {sym \in symbols : one(sym).marked}]

\* the detection times after a scan that marked the symbols of marked
Detected(marked, now) ==
    [sym \in DOMAIN detected_at \cup marked |->
        IF sym \in marked THEN now ELSE detected_at[sym]]

(***************************************************************************)
(* The orchestration loop (main.py)                                        *)
(***************************************************************************)
MaxClock     == 90   \* datetime.now() takes values up to MaxClock minutes
MaxLoopClock == 60   \* the loop starts no tick after MaxLoopClock minutes
MaxEntries == 2    \* at most this many positions are opened in a run

ClockSteps    == {30}            \* minutes from one tick of the loop to the next
AdvanceSteps  == {29, 30, 31}    \* minutes from one direct call to the next
EntryPrices   == {200}           \* signal.price of a BUY signal
\* get_current_price results: 0 (its failure value), -6%, -2%, -1.5%, 0%,
\* +4% and +6% of the entry price
CurrentPrices == {0, 188, 196, 197, 200, 208, 212}
LiveBalances  == {10000, 500000} \* client.get_balance("KRW") results
Strategies    == <<"DIP", "VBS">>   \* [DipStrategy, VolatilityBreakoutStrategy]

\* datetime.min, in minutes
DatetimeMin == -(1000 * 1000)

\* the (now - x).total_seconds() thresholds of 3600, in minutes
HourMinutes == 60

LoopInit ==
    [pc                   |-> "top",
     now                  |-> 0,
     hot_symbols          |-> {},
     current_regime       |-> "FLAT",
     last_universe_update |-> DatetimeMin,
     last_regime_update   |-> DatetimeMin,
     last_sell_times      |-> EmptyDict,
     scanner_results      |-> EmptyDict,
     pending              |-> {},
     held_symbols         |-> {},
     current_price_map    |-> EmptyDict]

\* pnl_pct < -0.015 with pnl_pct = (p - entry_price) / entry_price
HardStop(p, entry_price) == (p - entry_price) * 1000 < -15 * entry_price

\* a stop on a move of 3% away from the mark in either direction
TrailingStop_band(p, highest_price) ==
    p * 100 < highest_price * 97 \/ p * 97 > highest_price * 100

\* p < pos.highest_price * 0.97
TrailingStop(p, highest_price) == p * 100 < highest_price * 97

\* pnl_pct > 0.05
TakeProfit(p, entry_price) == (p - entry_price) * 100 > 5 * entry_price

\* the wall clock advances
ClockAdvance ==
    /\ \E step \in AdvanceSteps :
          /\ clock + step <= MaxClock
          /\ clock' = clock + step
    /\ UNCHANGED <<risk, today, traderVars, loop, scanVars, histVars>>

\* the calendar date advances
DayAdvance ==
    /\ today < MaxDay
    /\ today' = today + 1
    /\ UNCHANGED <<risk, clock, traderVars, loop, scanVars, histVars>>

\* a refresh as soon as an hour has passed
hour_passed_inclusive(now, last_update) == now - last_update >= HourMinutes

\* main.py 81, 88: (now - last_update).total_seconds() > 3600
hour_passed(now, last_update) == now - last_update > HourMinutes

\* main.py 78-109: the top of a tick: now is read, the universe and the
\* regime are refreshed when older than an hour, the hot symbols are scanned
\* and the strategy loop is set up
\* (get_top_movers returns a subset of markets, RegimeAnalyzer.analyze a
\* member of regimes and fetch_ohlcv a member of frames)
TickWith(markets, regimes, frames) ==
    /\ loop.pc = "top"
    /\ \E top_movers \in SUBSET markets, analyzed \in regimes :
          LET now == clock
              refresh_universe ==
                  loop.hot_symbols = {}
                    \/ hour_passed(now, loop.last_universe_update)
              refresh_regime == hour_passed(now, loop.last_regime_update)
              hot == IF refresh_universe THEN top_movers ELSE loop.hot_symbols
          IN  \E dfs \in [hot -> frames] :
                LET sc == scan(states, hot, clock, dfs)
                IN  /\ states' = sc.states
                    /\ detected_at' = Detected(sc.marked, clock)
                    /\ last_call' = [op |-> "tick", cleared |-> sc.cleared,
                                     was_empty |-> loop.hot_symbols = {},
                                     universe_age |->
                                         now - loop.last_universe_update]
                    /\ loop' = [loop EXCEPT
                          !.pc = "strategy",
                          !.now = now,
                          !.hot_symbols = hot,
                          !.last_universe_update =
                              IF refresh_universe THEN now ELSE @,
                          !.current_regime = IF refresh_regime THEN analyzed ELSE @,
                          !.last_regime_update = IF refresh_regime THEN now ELSE @,
                          !.scanner_results = sc.results,
                          !.pending = hot \X {1, 2}]
    /\ UNCHANGED <<risk, envVars, traderVars,
                   n_update_pnl, n_closed, n_entries>>

TickBegin(markets) == TickWith(markets, Regimes, Frames)

\* the next (symbol, strategy) evaluated: the strategies of a symbol in list order
NextPending(symbol, i) ==
    /\ <<symbol, i>> \in loop.pending
    /\ \A j \in 1..(i - 1) : <<symbol, j>> \notin loop.pending

\* main.py 116-118: a strategy returns no signal
NoSignal(symbol, i) ==
    /\ loop.pc = "strategy"
    /\ NextPending(symbol, i)
    /\ loop' = [loop EXCEPT !.pending = @ \ {<<symbol, i>>}]
    /\ last_call' = [op |-> "no_signal", symbol |-> symbol]
    /\ UNCHANGED <<risk, envVars, traderVars, scanVars,
                   n_update_pnl, n_closed, n_entries>>

\* the handling of a BUY signal without the cooldown check
HandleBuy_no_cooldown(t, d, lp, symbol, st_type, price, live_balance, order_ok) ==
    IF check_entry_allowed(t.risk, lp.current_regime, st_type)
    THEN [gate |-> "executed",
          res  |-> execute_signal(t, d, "BUY", symbol, price, lp.current_regime,
                                  "L1", "VOLTX_" \o st_type, live_balance,
                                  order_ok)]
    ELSE [gate |-> "risk", res |-> Result(FALSE, t, 0, 0, 0)]

\* main.py 122-139: what the loop does with a BUY signal: the gate that
\* decides and the trader operation made, if any
HandleBuy(t, d, lp, symbol, st_type, price, live_balance, order_ok) ==
    IF symbol \in DOMAIN lp.last_sell_times
         /\ lp.now - lp.last_sell_times[symbol] < HourMinutes
    THEN [gate |-> "cooldown", res |-> Result(FALSE, t, 0, 0, 0)]
    ELSE IF check_entry_allowed(t.risk, lp.current_regime, st_type)
    THEN [gate |-> "executed",
          res  |-> execute_signal(t, d, "BUY", symbol, price, lp.current_regime,
                                  "L1", "VOLTX_" \o st_type, live_balance,
                                  order_ok)]
    ELSE [gate |-> "risk", res |-> Result(FALSE, t, 0, 0, 0)]

\* main.py 116-139: a strategy returns a BUY signal and the loop handles it.
\* VolatilityBreakoutStrategy returns a signal only in regime BULL.
\* At most max_entries positions are opened in a run.
BuySignalWithin(symbol, i, price, live_balance, order_ok, max_entries) ==
    /\ loop.pc = "strategy"
    /\ NextPending(symbol, i)
    /\ Strategies[i] = "DIP" => loop.scanner_results[symbol] # "EXHAUSTED"
    /\ Strategies[i] = "VBS" =>
          /\ loop.current_regime = "BULL"
          /\ loop.scanner_results[symbol] = "TREND_ACTIVE"
    /\ LET h == HandleBuy(Trader, today, loop, symbol, Strategies[i], price,
                          live_balance, order_ok)
       IN  /\ h.res.ret => n_entries < max_entries
           /\ risk' = h.res.trader.risk
           /\ positions' = h.res.trader.positions
           /\ paper_balance' = h.res.trader.paper_balance
           /\ n_entries' = n_entries + (IF h.res.ret THEN 1 ELSE 0)
           /\ last_call' = [op |-> "buy", symbol |-> symbol,
                            strategy |-> Strategies[i], gate |-> h.gate,
                            ret |-> h.res.ret, orders |-> h.res.orders,
                            was_held |-> symbol \in DOMAIN positions,
                            was_halted |-> risk.is_trading_halted,
                            was_stale |-> today > risk.last_reset_date]
    /\ loop' = [loop EXCEPT !.pending = @ \ {<<symbol, i>>}]
    /\ UNCHANGED <<envVars, mode, scanVars, n_update_pnl, n_closed>>

BuySignal(symbol, i, price, live_balance, order_ok) ==
    BuySignalWithin(symbol, i, price, live_balance, order_ok, MaxEntries)

\* main.py 142-145: the strategy loop is over; the held symbols are listed
ManageBegin ==
    /\ loop.pc = "strategy"
    /\ loop.pending = {}
    /\ loop' = [loop EXCEPT
           !.pc = IF DOMAIN positions = {} THEN "sleep" ELSE "manage",
           !.held_symbols = DOMAIN positions,
           !.current_price_map = EmptyDict]
    /\ last_call' = [op |-> "manage_begin"]
    /\ UNCHANGED <<risk, envVars, traderVars, scanVars,
                   n_update_pnl, n_closed, n_entries>>

\* the exit tests made only for the symbols of the universe
ExitSignal_hot_only(pos, p) ==
    IF pos.symbol \notin loop.hot_symbols THEN "NONE"
    ELSE IF HardStop(p, pos.entry_price) THEN "SL"
    ELSE IF pos.strategy_name = "VOLTX_VBS"
    THEN IF TrailingStop(p, pos.highest_price) THEN "TP" ELSE "NONE"
    ELSE IF TakeProfit(p, pos.entry_price) THEN "TP" ELSE "NONE"

\* the exit tests made only while trading is not halted
ExitSignal_unless_halted(pos, p) ==
    IF risk.is_trading_halted THEN "NONE"
    ELSE IF HardStop(p, pos.entry_price) THEN "SL"
    ELSE IF pos.strategy_name = "VOLTX_VBS"
    THEN IF TrailingStop(p, pos.highest_price) THEN "TP" ELSE "NONE"
    ELSE IF TakeProfit(p, pos.entry_price) THEN "TP" ELSE "NONE"

\* the exit tests with the strategy-specific exit tried first
ExitSignal_strategy_first(pos, p) ==
    IF pos.strategy_name = "VOLTX_VBS" /\ TrailingStop(p, pos.highest_price) THEN "TP"
    ELSE IF pos.strategy_name # "VOLTX_VBS" /\ TakeProfit(p, pos.entry_price) THEN "TP"
    ELSE IF HardStop(p, pos.entry_price) THEN "SL"
    ELSE "NONE"

\* the exit tests with the two strategy-specific exits exchanged
ExitSignal_exits_exchanged(pos, p) ==
    IF HardStop(p, pos.entry_price) THEN "SL"
    ELSE IF pos.strategy_name # "VOLTX_VBS"
    THEN IF TrailingStop(p, pos.highest_price) THEN "TP" ELSE "NONE"
    ELSE IF TakeProfit(p, pos.entry_price) THEN "TP" ELSE "NONE"

\* main.py 150-178: the exit signal, if any, for position pos at price p
ExitSignal(pos, p) ==
    IF HardStop(p, pos.entry_price) THEN "SL"
    ELSE IF pos.strategy_name = "VOLTX_VBS"
    THEN IF TrailingStop(p, pos.highest_price) THEN "TP" ELSE "NONE"
    ELSE IF TakeProfit(p, pos.entry_price) THEN "TP" ELSE "NONE"

\* main.py 146-178: one held symbol s: its price p is fetched and an exit is
\* executed when one of the exit tests holds
ManagePosition(s, p, order_ok) ==
    /\ loop.pc = "manage"
    /\ s \in loop.held_symbols
    /\ LET pos == positions[s]
           sig == ExitSignal(pos, p)
           res == IF sig = "NONE"
                  THEN Result(FALSE, Trader, 0, 0, 0)
                  ELSE execute_signal(Trader, today, sig, s, p,
                                      loop.current_regime, "L1",
                                      pos.strategy_name, 0, order_ok)
       IN  /\ n_update_pnl + res.updates <= MaxUpdates
           /\ risk' = res.trader.risk
           /\ positions' = res.trader.positions
           /\ paper_balance' = res.trader.paper_balance
           /\ n_update_pnl' = n_update_pnl + res.updates
           /\ n_closed' = n_closed + res.closed
           /\ loop' = [loop EXCEPT
                  !.held_symbols = @ \ {s},
                  !.current_price_map = DictSet(@, s, p),
                  !.last_sell_times =
                      IF res.ret THEN DictSet(@, s, clock) ELSE @]
           /\ last_call' = [op |-> "manage", symbol |-> s, price |-> p,
                            signal |-> sig, ret |-> res.ret,
                            orders |-> res.orders, updates |-> res.updates,
                            closed |-> res.closed,
                            strategy_name |-> pos.strategy_name]
    /\ UNCHANGED <<envVars, mode, scanVars, n_entries>>

\* main.py 180: every held symbol has been looked at; the high-water marks
\* are updated
UpdatePositions ==
    /\ loop.pc = "manage"
    /\ loop.held_symbols = {}
    /\ positions' = update_positions(positions, loop.current_price_map)
    /\ loop' = [loop EXCEPT !.pc = "sleep"]
    /\ last_call' = [op |-> "update_positions"]
    /\ UNCHANGED <<risk, envVars, mode, paper_balance, scanVars,
                   n_update_pnl, n_closed, n_entries>>

\* main.py 184-187: heartbeat and time.sleep(60); the clock has advanced
\* when the next tick starts
Sleep ==
    /\ loop.pc = "sleep"
    /\ \E step \in ClockSteps :
          /\ clock + step <= MaxLoopClock
          /\ clock' = clock + step
    /\ loop' = [loop EXCEPT !.pc = "top"]
    /\ last_call' = [op |-> "sleep"]
    /\ UNCHANGED <<risk, today, traderVars, scanVars,
                   n_update_pnl, n_closed, n_entries>>

(***************************************************************************)
(* Initial states and specifications.                                      *)
(***************************************************************************)
NoCall == [op |-> "none"]

InitCommon ==
    /\ today = 0
    /\ clock = 0
    /\ risk = RiskInit(0)
    /\ positions = EmptyDict
    /\ paper_balance = 10000000
    /\ loop = LoopInit
    /\ states = EmptyDict
    /\ detected_at = EmptyDict
    /\ last_call = NoCall
    /\ n_update_pnl = 0
    /\ n_closed = 0
    /\ n_entries = 0

\* the trading loop, started in paper (--mode dry-run) or live mode
Init == InitCommon /\ mode \in {"paper", "live"}

Next ==
    \/ DayAdvance
    \/ TickBegin(Markets)
    \/ \E symbol \in Symbols, i \in 1..2 : NoSignal(symbol, i)
    \/ \E symbol \in Symbols, i \in 1..2, price \in EntryPrices,
          live_balance \in LiveBalances, order_ok \in BOOLEAN :
           BuySignal(symbol, i, price, live_balance, order_ok)
    \/ ManageBegin
    \/ \E s \in Symbols, p \in CurrentPrices, order_ok \in BOOLEAN :
           ManagePosition(s, p, order_ok)
    \/ UpdatePositions
    \/ Sleep

Spec == Init /\ [][Next]_vars

\* main.py 76-77, 189-191: the whole `while True' loop is the body of one
\* `try', and KeyboardInterrupt is handled outside the loop: Python raises
\* it between any two bytecodes of the tick, the rest of the tick is
\* abandoned and main() returns.  The phase the tick was in is recorded.
Interrupt ==
    /\ loop.pc # "stopped"
    /\ loop' = [loop EXCEPT !.pc = "stopped"]
    /\ last_call' = [op |-> "interrupt", at |-> loop.pc,
                     pending |-> loop.pending, held |-> loop.held_symbols,
                     orders |-> 0]
    /\ UNCHANGED <<envVars, risk, traderVars, scanVars, n_update_pnl,
                   n_closed, n_entries>>

\* trader.py 58-96 under main.py 189: the interrupt arrives in a live
\* _entry after place_order has returned (trader.py 82) and before the
\* position is recorded (trader.py 92-95).  `except Exception' (trader.py
\* 84) does not catch KeyboardInterrupt, so the sizing has run, the order is
\* placed, and the position map is left as it was.
InterruptEntry(symbol, i, price, live_balance) ==
    /\ loop.pc = "strategy"
    /\ mode = "live"
    /\ NextPending(symbol, i)
    /\ Strategies[i] = "DIP" => loop.scanner_results[symbol] # "EXHAUSTED"
    /\ Strategies[i] = "VBS" =>
          /\ loop.current_regime = "BULL"
          /\ loop.scanner_results[symbol] = "TREND_ACTIVE"
    /\ LET h == HandleBuy(Trader, today, loop, symbol, Strategies[i], price,
                          live_balance, TRUE)
       IN  /\ h.res.ret
           /\ h.res.orders = 1
           /\ risk' = h.res.trader.risk
           /\ last_call' = [op |-> "interrupt", at |-> "entry",
                            pending |-> loop.pending,
                            held |-> loop.held_symbols,
                            orders |-> h.res.orders]
    /\ loop' = [loop EXCEPT !.pc = "stopped"]
    /\ UNCHANGED <<envVars, traderVars, scanVars, n_update_pnl, n_closed,
                   n_entries>>

NextInterrupt ==
    \/ Next
    \/ Interrupt
    \/ \E symbol \in Symbols, i \in 1..2, price \in EntryPrices,
          live_balance \in LiveBalances :
           InterruptEntry(symbol, i, price, live_balance)

SpecInterrupt == Init /\ [][NextInterrupt]_vars

\* The loop running for ever.  Every comparison the code makes between
\* times is on a difference (now - last_update > 3600, now - last_sell <
\* 3600, now > exhausted_until), so a run is unchanged when every time in
\* it is moved back by the same amount: here the clock reading is kept
\* and the stored times are moved back by the sleep instead.  A time more
\* than an hour old is kept at LongAgo: no comparison tells it from an
\* older one.
LongAgo == 0 - (HourMinutes + 1)

Shift(t, step) ==
    IF t <= LongAgo THEN t
    ELSE IF t - step < LongAgo THEN LongAgo ELSE t - step

\* main.py 184-187: heartbeat and time.sleep(60), with the times moved back
SleepOn ==
    /\ loop.pc = "sleep"
    /\ \E step \in ClockSteps :
          /\ loop' = [loop EXCEPT
                !.pc = "top",
                !.now = Shift(@, step),
                !.last_universe_update = Shift(@, step),
                !.last_regime_update = Shift(@, step),
                !.last_sell_times =
                    [sym \in DOMAIN @ |-> Shift(@[sym], step)]]
          /\ states' = [sym \in DOMAIN states |->
                [states[sym] EXCEPT !.exhausted_until =
                    IF states[sym].has_until THEN Shift(@, step) ELSE @]]
          /\ detected_at' = [sym \in DOMAIN detected_at |->
                                Shift(detected_at[sym], step)]
    /\ last_call' = [op |-> "sleep"]
    /\ UNCHANGED <<risk, envVars, traderVars, n_update_pnl, n_closed,
                   n_entries>>

\* The collaborators of the loop that runs for ever: the market stays
\* quiet, orders are filled, and a held position either keeps its price
\* or has lost 6%.
QuietFrames   == {df \in Frames : df.n >= MinCandles /\ ~RelVolAtLeast(df, spike_threshold)}
FallingPrices == {188, 200}

\* the steps of the loop: whatever the collaborators return, the single
\* thread goes on to its next statement
LoopStep ==
    \/ TickWith(Markets, Regimes, QuietFrames)
    \/ \E symbol \in Symbols, i \in 1..2 : NoSignal(symbol, i)
    \/ \E symbol \in Symbols, i \in 1..2, price \in EntryPrices :
           BuySignal(symbol, i, price, 500000, TRUE)
    \/ ManageBegin
    \/ \E s \in Symbols, p \in FallingPrices :
           ManagePosition(s, p, TRUE)
    \/ UpdatePositions
    \/ SleepOn

NextForever ==
    \/ DayAdvance
    \/ LoopStep

\* main.py 77: `while True' never stops of itself
InitForever == InitCommon /\ mode = "paper"

SpecForever == InitForever /\ [][NextForever]_vars /\ WF_vars(LoopStep)

\* The loop on two markets.  get_top_movers returns any subset of the two,
\* so that a refresh can drop a held symbol; the candles show a volume
\* spike (every symbol scans TREND_ACTIVE), the regime is BULL (both
\* strategies can signal), and a held position is seen at -6%, 0% or +6% of
\* its entry price.  The ticks are 31 minutes apart, so that the third tick
\* is more than an hour after the first and refreshes the universe again.
SpikeFrames == {df \in Frames : df.n >= MinCandles /\ df.volume = 300}
PairPrices  == {188, 200, 212}
LongSteps   == {31}

\* main.py 184-187: heartbeat and time.sleep(60); the next tick starts 31
\* minutes after this one
SleepLong ==
    /\ loop.pc = "sleep"
    /\ \E step \in LongSteps :
          /\ clock + step <= MaxClock
          /\ clock' = clock + step
    /\ loop' = [loop EXCEPT !.pc = "top"]
    /\ last_call' = [op |-> "sleep"]
    /\ UNCHANGED <<risk, today, traderVars, scanVars,
                   n_update_pnl, n_closed, n_entries>>

NextPair ==
    \/ DayAdvance
    \/ TickWith(Symbols, {"BULL"}, SpikeFrames)
    \/ \E symbol \in Symbols, i \in 1..2 : NoSignal(symbol, i)
    \/ \E symbol \in Symbols, i \in 1..2, price \in EntryPrices,
          order_ok \in BOOLEAN :
           BuySignal(symbol, i, price, 500000, order_ok)
    \/ ManageBegin
    \/ \E s \in Symbols, p \in PairPrices, order_ok \in BOOLEAN :
           ManagePosition(s, p, order_ok)
    \/ UpdatePositions
    \/ SleepLong

SpecPair == Init /\ [][NextPair]_vars

\* The loop through a run of stop-losses.  One market, paper mode, quiet
\* candles, orders filled; an entry is made at 10000 and a held position is
\* seen at 9849 (-1.51%, under the hard stop), at its entry price, or at
\* 10600 (+6%, over the take-profit).  Three stop-losses at 9849 cost less
\* than the 5% daily limit, so a fourth position can be opened.  Times are
\* kept relative to the clock as in the loop that runs for ever.
MaxStops    == 4    \* at most this many positions are opened in such a run
StopEntries == {10000}
StopPrices  == {9849, 10000, 10600}

NextStops ==
    \/ DayAdvance
    \/ TickWith(Markets, {"FLAT"}, QuietFrames)
    \/ \E symbol \in Symbols, i \in 1..2 : NoSignal(symbol, i)
    \/ \E symbol \in Symbols, i \in 1..2, price \in StopEntries :
           BuySignalWithin(symbol, i, price, 500000, TRUE, MaxStops)
    \/ ManageBegin
    \/ \E s \in Symbols, p \in StopPrices :
           ManagePosition(s, p, TRUE)
    \/ UpdatePositions
    \/ SleepOn

SpecStops == InitForever /\ [][NextStops]_vars

(***************************************************************************)
(* Strategies (core/strategy.py) and RegimeAnalyzer (core/regime.py)       *)
(***************************************************************************)
ScannerStatuses == {"NORMAL", "TREND_ACTIVE", "EXHAUSTED"}

\* Signal(action, symbol, price, reason) or None
NoneSignal == [action |-> "NONE", price |-> 0]

BuyAt(price) == [action |-> "BUY", price |-> price]

\* what DipStrategy reads of df_3m: the number of candles, the last candle,
\* EMA(12) and EMA(26) of the closes, the highest high of the last 20
\* candles, RSI(14) and the lower Bollinger band
DipFrames ==
    [n : {29, 30}, ema12 : {100, 101}, ema26 : {100}, recent_high : {1000},
     close : {970, 975, 980, 990}, open : {970, 985}, low : {960},
     rsi : {35, 40, 45, 50}, bb_lower : {950, 960}]

\* drop_threshold of the regime, in thousandths
drop_threshold(regime) ==
    IF regime = "BULL" THEN 20 ELSE IF regime = "FLAT" THEN 25 ELSE 30

rsi_threshold(regime) ==
    IF regime = "BULL" THEN 45 ELSE IF regime = "FLAT" THEN 40 ELSE 35

\* green candle, or lower wick > 2 x body
is_reversal(df) ==
    \/ df.close >= df.open
    \/ LET body       == df.open - df.close
           lower_wick == df.close - df.low
       IN  lower_wick > body * 2

\* DipStrategy.check_signal with the scanner filter left out
dip_check_signal_any_status(df, regime, scanner_status) ==
    IF df.n < 30 THEN NoneSignal
    ELSE IF df.ema12 <= df.ema26 THEN NoneSignal
    ELSE IF (df.recent_high - df.close) * 1000 < drop_threshold(regime) * df.recent_high
    THEN NoneSignal
    ELSE IF df.rsi > rsi_threshold(regime) THEN NoneSignal
    ELSE IF df.low * 1000 > df.bb_lower * 1005 THEN NoneSignal
    ELSE IF ~is_reversal(df) THEN NoneSignal
    ELSE BuyAt(df.close)

\* DipStrategy.check_signal with the RSI ceiling exclusive
dip_check_signal_rsi_exclusive(df, regime, scanner_status) ==
    IF scanner_status # "TREND_ACTIVE" /\ scanner_status = "EXHAUSTED"
    THEN NoneSignal
    ELSE IF df.n < 30 THEN NoneSignal
    ELSE IF df.ema12 <= df.ema26 THEN NoneSignal
    ELSE IF (df.recent_high - df.close) * 1000 < drop_threshold(regime) * df.recent_high
    THEN NoneSignal
    ELSE IF df.rsi >= rsi_threshold(regime) THEN NoneSignal
    ELSE IF df.low * 1000 > df.bb_lower * 1005 THEN NoneSignal
    ELSE IF ~is_reversal(df) THEN NoneSignal
    ELSE BuyAt(df.close)

\* DipStrategy.check_signal
dip_check_signal(df, regime, scanner_status) ==
    IF scanner_status # "TREND_ACTIVE" /\ scanner_status = "EXHAUSTED"
    THEN NoneSignal
    ELSE IF df.n < 30 THEN NoneSignal
    ELSE IF df.ema12 <= df.ema26 THEN NoneSignal
    ELSE IF (df.recent_high - df.close) * 1000 < drop_threshold(regime) * df.recent_high
    THEN NoneSignal
    ELSE IF df.rsi > rsi_threshold(regime) THEN NoneSignal
    ELSE IF df.low * 1000 > df.bb_lower * 1005 THEN NoneSignal
    ELSE IF ~is_reversal(df) THEN NoneSignal
    ELSE BuyAt(df.close)

\* what VolatilityBreakoutStrategy reads: df_15m (candles, last close,
\* SMA(20)), the daily candles (whether the fetch raises, how many, the
\* previous day's range, today's open) and df_3m (candles, last close,
\* SMA(120), upper Bollinger band, RSI(14))
VbsFrames ==
    [n_15m : {19, 20}, close_15m : {100}, sma20_15m : {99, 101},
     daily_raises : BOOLEAN, n_daily : {1, 2}, prev_range : {10},
     today_open : {100},
     n_3m : {119, 120}, close : {106, 107, 110, 111}, sma120 : {100, 120},
     bb_upper : {107, 115}, rsi : {75, 76}]

\* 10 x target_price, target_price = current_day['open'] + prev_range * 0.7
target_price_x10(df) == 10 * df.today_open + 7 * df.prev_range

\* VolatilityBreakoutStrategy.check_signal with the regime filter left out
vbs_check_signal_any_regime(df, regime, scanner_status) ==
    IF scanner_status # "TREND_ACTIVE"
         /\ scanner_status \in {"EXHAUSTED", "NORMAL"}
    THEN NoneSignal
    ELSE IF df.n_15m < 20 THEN NoneSignal
    ELSE IF df.close_15m < df.sma20_15m THEN NoneSignal
    ELSE IF df.daily_raises THEN NoneSignal
    ELSE IF df.n_daily < 2 THEN NoneSignal
    ELSE IF df.n_3m < 120 THEN NoneSignal
    ELSE IF df.close < df.sma120 THEN NoneSignal
    ELSE IF df.close * 1000 < df.bb_upper * 995 THEN NoneSignal
    ELSE IF 10 * df.close >= target_price_x10(df)
    THEN IF 1000 * df.close > 103 * target_price_x10(df) THEN NoneSignal
         ELSE IF df.rsi > 75 THEN NoneSignal
         ELSE BuyAt(df.close)
    ELSE NoneSignal

\* VolatilityBreakoutStrategy.check_signal
vbs_check_signal(df, regime, scanner_status) ==
    IF regime # "BULL" THEN NoneSignal
    ELSE IF scanner_status # "TREND_ACTIVE"
              /\ scanner_status \in {"EXHAUSTED", "NORMAL"}
    THEN NoneSignal
    ELSE IF df.n_15m < 20 THEN NoneSignal
    ELSE IF df.close_15m < df.sma20_15m THEN NoneSignal
    ELSE IF df.daily_raises THEN NoneSignal
    ELSE IF df.n_daily < 2 THEN NoneSignal
    ELSE IF df.n_3m < 120 THEN NoneSignal
    ELSE IF df.close < df.sma120 THEN NoneSignal
    ELSE IF df.close * 1000 < df.bb_upper * 995 THEN NoneSignal
    ELSE IF 10 * df.close >= target_price_x10(df)
    THEN IF 1000 * df.close > 103 * target_price_x10(df) THEN NoneSignal
         ELSE IF df.rsi > 75 THEN NoneSignal
         ELSE BuyAt(df.close)
    ELSE NoneSignal

\* the closes of the 4h candles fetch_ohlcv returns to RegimeAnalyzer: n
\* candles, the last close current, the closes 7th and 19th from the end
\* where the series is that long, and the oldest close first
Closes(n, first, m19, m7, current) ==
    [i \in 1..n |->
        IF i = n THEN current
        ELSE IF i = n - 6 THEN m7
        ELSE IF i = n - 18 THEN m19
        ELSE IF i = 1 THEN first
        ELSE current]

CandleCounts == {0, 5, 6, 7, 18, 19, 20}
OldCloses    == {90, 100, 110}
LastCloses   == {95, 97, 100, 103, 105}

\* the value standing for the IndexError of a read outside the series
IndexError == 0 - 1

\* df.iloc[k]['close'] for a negative k, df.iloc[0]['close'] for k = 0;
\* IndexError when the position is outside the series
Iloc(closes, k) ==
    LET i == IF k < 0 THEN Len(closes) + 1 + k ELSE k + 1
    IN  IF i \in 1..Len(closes) THEN closes[i] ELSE IndexError

\* the result dict of analyze; factor in tenths; details is "empty" for {}
RegimeResult(type, factor, details) ==
    [type |-> type, factor |-> factor, details |-> details, raised |-> FALSE]

RegimeRaised == [type |-> "NONE", factor |-> 0, details |-> "empty", raised |-> TRUE]

\* the lookback reads with the fallback taken one candle too late
lookback_late(closes, back) ==
    IF Len(closes) >= back - 1 THEN Iloc(closes, -back) ELSE Iloc(closes, 0)

\* df.iloc[-back]['close'] if len(df) >= back else df.iloc[0]['close']
lookback(closes, back) ==
    IF Len(closes) >= back THEN Iloc(closes, -back) ELSE Iloc(closes, 0)

\* the classification with BEAR tested before BULL
classify_bear_first(current_price, price_24h_ago, price_72h_ago) ==
    LET d24 == current_price - price_24h_ago
        d72 == current_price - price_72h_ago
    IN  IF d24 * 100 < -3 * price_24h_ago \/ d72 * 100 < -5 * price_72h_ago
        THEN RegimeResult("BEAR", 5, "filled")
        ELSE IF d24 * 100 > 3 * price_24h_ago \/ d72 * 100 > 5 * price_72h_ago
        THEN RegimeResult("BULL", 12, "filled")
        ELSE RegimeResult("FLAT", 10, "filled")

\* regime.py 52-87: ret_24h, ret_72h and the classification
classify(current_price, price_24h_ago, price_72h_ago) ==
    LET d24 == current_price - price_24h_ago
        d72 == current_price - price_72h_ago
    IN  IF d24 * 100 > 3 * price_24h_ago \/ d72 * 100 > 5 * price_72h_ago
        THEN RegimeResult("BULL", 12, "filled")
        ELSE IF d24 * 100 < -3 * price_24h_ago \/ d72 * 100 < -5 * price_72h_ago
        THEN RegimeResult("BEAR", 5, "filled")
        ELSE RegimeResult("FLAT", 10, "filled")

\* RegimeAnalyzer.analyze on the closes fetched
analyze(closes) ==
    IF Len(closes) < 6 THEN RegimeResult("FLAT", 10, "empty")
    ELSE LET current_price == Iloc(closes, -1)
             price_24h_ago == lookback(closes, 7)
             price_72h_ago == lookback(closes, 19)
         IN  IF IndexError \in {current_price, price_24h_ago, price_72h_ago}
             THEN RegimeRaised
             ELSE classify(current_price, price_24h_ago, price_72h_ago)

(***************************************************************************)
(* FibonacciMorningStrategy (core/strategy_fib.py) and the client call it  *)
(* makes (infra/upbit_client.py)                                           *)
(***************************************************************************)
\* the parameters of UpbitClient.fetch_ohlcv after self
FetchParams == <<"symbol", "timeframe", "start", "end">>

\* what a call that raises gives
TypeError == [raised |-> "TypeError"]

\* UpbitClient.fetch_ohlcv called with n_positional positional arguments and
\* the given keyword arguments, when the exchange would deliver df: Python
\* binds the arguments first and raises TypeError for a keyword that is not
\* a parameter or a parameter left without a value
fetch_ohlcv(n_positional, keywords, df) ==
    LET named == {FetchParams[i] : i \in 1..Len(FetchParams)}
        bound == {FetchParams[i] : i \in 1..n_positional} \cup keywords
    IN  IF keywords \subseteq named /\ bound = named THEN df ELSE TypeError

\* What the exchange holds when check_signal is called: whether now is in
\* 09:05..11:30, the daily candles (their number, SMA 5, 10 and 20 of the
\* closes), the 5-minute candles (whether one starts at 09:00, its high, low
\* and volume, and the close and volume of the last candle)
FibFrames ==
    [in_window : BOOLEAN,
     daily : [n : {19, 30}, ma5 : {105}, ma10 : {100, 105}, ma20 : {95}],
     m5 : [has_anchor : BOOLEAN, ref_high : {102, 103, 110}, ref_low : {100},
           impulse_vol : {0, 100}, current_price : {104, 105, 106, 107},
           current_vol : {20, 30, 31}]]

\* FibonacciMorningStrategy.check_daily_alignment
check_daily_alignment(df_daily) ==
    IF df_daily.n < 20 THEN FALSE
    ELSE df_daily.ma5 > df_daily.ma10 /\ df_daily.ma10 > df_daily.ma20

\* FibonacciMorningStrategy.check_support_at_fib: the 'valid' entry
check_support_at_fib(df_5m) ==
    IF ~df_5m.has_anchor \/ df_5m.impulse_vol = 0 THEN FALSE
    ELSE IF df_5m.current_vol * 10 > df_5m.impulse_vol * 3 THEN FALSE
    ELSE TRUE

\* strategy_fib.py 53-119: the body of the try after the daily filter
fib_entry(df_5m) ==
    IF df_5m = TypeError THEN NoneSignal
    ELSE IF ~df_5m.has_anchor THEN NoneSignal
    ELSE IF (df_5m.ref_high - df_5m.ref_low) * 100 < 3 * df_5m.ref_low
    THEN NoneSignal
    ELSE LET range_val  == df_5m.ref_high - df_5m.ref_low
             fib_0382_k == df_5m.ref_high * 1000 - range_val * 382
             fib_0500_k == df_5m.ref_high * 1000 - range_val * 500
             price_k    == df_5m.current_price * 1000
         IN  IF fib_0500_k <= price_k /\ price_k <= fib_0382_k
                  /\ check_support_at_fib(df_5m)
             THEN BuyAt(df_5m.current_price)
             ELSE NoneSignal

\* FibonacciMorningStrategy.check_signal: the two fetches are made as
\* fetch_ohlcv(symbol, 'day', count=30) and fetch_ohlcv(symbol, '5m',
\* count=36); an exception in the try gives None
fib_check_signal(frame) ==
    IF ~frame.in_window THEN NoneSignal
    ELSE LET df_daily == fetch_ohlcv(2, {"count"}, frame.daily)
         IN  IF df_daily = TypeError THEN NoneSignal
             ELSE IF ~check_daily_alignment(df_daily) THEN NoneSignal
             ELSE fib_entry(fetch_ohlcv(2, {"count"}, frame.m5))

(***************************************************************************)
(* The strategies and the regime analyzer called directly: they are pure,   *)
(* so each behaviour makes one call, on any input.                         *)
(***************************************************************************)
InitSignal == InitCommon /\ mode = "paper"

CallDipCheckSignal(df, regime, scanner_status) ==
    /\ last_call = NoCall
    /\ last_call' = [op |-> "dip_check_signal", df |-> df, regime |-> regime,
                     scanner_status |-> scanner_status,
                     signal |-> dip_check_signal(df, regime, scanner_status)]
    /\ UNCHANGED <<risk, envVars, traderVars, loop, scanVars,
                   n_update_pnl, n_closed, n_entries>>

CallVbsCheckSignal(df, regime, scanner_status) ==
    /\ last_call = NoCall
    /\ last_call' = [op |-> "vbs_check_signal", df |-> df, regime |-> regime,
                     scanner_status |-> scanner_status,
                     signal |-> vbs_check_signal(df, regime, scanner_status)]
    /\ UNCHANGED <<risk, envVars, traderVars, loop, scanVars,
                   n_update_pnl, n_closed, n_entries>>

CallAnalyze(closes) ==
    /\ last_call = NoCall
    /\ last_call' = [op |-> "analyze", closes |-> closes, result |-> analyze(closes)]
    /\ UNCHANGED <<risk, envVars, traderVars, loop, scanVars,
                   n_update_pnl, n_closed, n_entries>>

CallFibCheckSignal(frame) ==
    /\ last_call = NoCall
    /\ last_call' = [op |-> "fib_check_signal", frame |-> frame,
                     signal |-> fib_check_signal(frame)]
    /\ UNCHANGED <<risk, envVars, traderVars, loop, scanVars,
                   n_update_pnl, n_closed, n_entries>>

NextSignal ==
    \/ \E df \in DipFrames, regime \in Regimes, st \in ScannerStatuses :
           CallDipCheckSignal(df, regime, st)
    \/ \E frame \in FibFrames : CallFibCheckSignal(frame)
    \/ \E df \in VbsFrames, regime \in Regimes, st \in ScannerStatuses :
           CallVbsCheckSignal(df, regime, st)
    \/ \E n \in CandleCounts, first \in OldCloses, m19 \in OldCloses,
          m7 \in OldCloses, current \in LastCloses :
           CallAnalyze(Closes(n, first, m19, m7, current))

SpecSignal == InitSignal /\ [][NextSignal]_vars

(***************************************************************************)
(* UniverseSelector (core/universe.py)                                     *)
(***************************************************************************)
\* self.blacklist
blacklist == {"KRW-BTT", "KRW-XEC"}

\* self.min_volume_krw = 10_000_000_000, in units of 10^9 KRW
min_volume_krw == 10

\* the hourly candles a symbol needs
MinHourlyCandles == 24

\* float NaN, as pct_change.std() can return it
NaN == 0 - 1

\* One entry of tickers_data with what fetch_ohlcv(m, '1h', start, end)
\* returns for its market: the 24h traded value (10^9 KRW), the number of
\* candles, the last close, the sum of the last 24 closes and the standard
\* deviation of the hourly changes (NaN or in 1/100)
Ticker(market, acc_trade_price_24h, n, current_price, closes24_sum, volatility) ==
    [market |-> market, acc_trade_price_24h |-> acc_trade_price_24h, n |-> n,
     current_price |-> current_price, closes24_sum |-> closes24_sum,
     volatility |-> volatility]

\* the symbols get_krw_markets returns, in its order
KrwMarkets == <<"KRW-AAA", "KRW-BTT", "KRW-BBB", "KRW-CCC">>

\* what the ticker and the candles of one market can be
TickerCases(market) ==
    { Ticker(market, 10, 24, 100, 2400, 2),     \* at both limits, score 20
      Ticker(market, 20, 24, 100, 2400, 1),     \* score 20 again
      Ticker(market, 30, 25, 101, 2400, 1),     \* score 30
      Ticker(market,  9, 24, 100, 2400, 5),     \* traded value too low
      Ticker(market, 40, 23, 100, 2400, 5),     \* too few candles
      Ticker(market, 40, 24,  99, 2400, 5),     \* under its 24-hour mean
      Ticker(market, 50, 24, 100, 2400, NaN) }  \* no volatility, score 0

TickersData ==
    { td \in [1..Len(KrwMarkets) -> UNION {TickerCases(KrwMarkets[i]) : i \in 1..Len(KrwMarkets)}] :
         \A i \in 1..Len(KrwMarkets) : td[i].market = KrwMarkets[i] }

Limits == {0, 1, 2, 10}

\* a symbol closing on its mean is dropped as well
downtrend_inclusive(t) == t.current_price * 24 <= t.closes24_sum

\* universe.py 114-119: current_price < sma24
downtrend(t) == t.current_price * 24 < t.closes24_sum

\* universe.py 107-110 and 124: score = volume_24h * volatility, NaN read as 0
score(t) == t.acc_trade_price_24h * (IF t.volatility = NaN THEN 0 ELSE t.volatility)

\* universe.py 71-83: not blacklisted and traded value >= min_volume_krw
VolumeFiltered(tickers_data) ==
    SelectSeq(tickers_data,
              LAMBDA t : t.market \notin blacklist
                           /\ t.acc_trade_price_24h >= min_volume_krw)

\* universe.py 97-131: candles and trend filter, then the score
ScoredCandidates(volume_filtered) ==
    LET keep == SelectSeq(volume_filtered,
                          LAMBDA t : ~(t.n < MinHourlyCandles) /\ ~downtrend(t))
    IN  [i \in 1..Len(keep) |-> [market |-> keep[i].market, score |-> score(keep[i])]]

\* c put into a list sorted by falling score, behind its equals
InsertByScore(c, sorted) ==
    LET before == SelectSeq(sorted, LAMBDA x : x.score >= c.score)
        after  == SelectSeq(sorted, LAMBDA x : x.score < c.score)
    IN  before \o <<c>> \o after

\* list.sort(key=score, reverse=True): stable, falling score
RECURSIVE SortByScore(_)
SortByScore(cands) ==
    IF cands = << >> THEN << >>
    ELSE InsertByScore(cands[Len(cands)],
                       SortByScore(SubSeq(cands, 1, Len(cands) - 1)))

\* UniverseSelector.get_top_movers(limit), from the tickers fetched
get_top_movers(tickers_data, limit) ==
    LET sorted == SortByScore(ScoredCandidates(VolumeFiltered(tickers_data)))
        top_n  == SubSeq(sorted, 1, Min(limit, Len(sorted)))
    IN  [i \in 1..Len(top_n) |-> top_n[i].market]

CallGetTopMovers(tickers_data, limit) ==
    /\ last_call = NoCall
    /\ last_call' = [op |-> "get_top_movers", tickers_data |-> tickers_data,
                     limit |-> limit,
                     ret |-> get_top_movers(tickers_data, limit)]
    /\ UNCHANGED <<risk, envVars, traderVars, loop, scanVars,
                   n_update_pnl, n_closed, n_entries>>

NextUniverse ==
    \E tickers_data \in TickersData, limit \in Limits :
        CallGetTopMovers(tickers_data, limit)

SpecUniverse == InitSignal /\ [][NextUniverse]_vars

(***************************************************************************)
(* The Risk Manager driven directly through its three operations, with     *)
(* the date advancing in between.                                          *)
(***************************************************************************)
TradePcts == {-30000, -20000, -10000, 0, 20000}   \* -3%, -2%, -1%, 0, +2%
Balances  == {0, 166666, 166667, 10000000}

InitRisk == InitCommon /\ mode = "paper"

CallUpdatePnl(t) ==
    /\ n_update_pnl < MaxUpdates
    /\ risk' = update_pnl(risk, today, t)
    /\ n_update_pnl' = n_update_pnl + 1
    /\ last_call' = [op |-> "update_pnl", trade_pnl_pct |-> t,
                     was_stale |-> today > risk.last_reset_date]
    /\ UNCHANGED <<envVars, traderVars, loop, scanVars, n_closed, n_entries>>

CallCalculatePositionSize(b, regime, tier) ==
    LET c == calculate_position_size(risk, today, b, regime, tier)
    IN  /\ risk' = c.risk
        /\ last_call' = [op |-> "calculate_position_size",
                         account_balance |-> b, regime |-> regime,
                         symbol_tier |-> tier, ret |-> c.ret]
        /\ UNCHANGED <<envVars, traderVars, loop, scanVars,
                       n_update_pnl, n_closed, n_entries>>

CallCheckEntryAllowed(regime, st) ==
    /\ last_call' = [op |-> "check_entry_allowed", regime |-> regime,
                     strategy_type |-> st,
                     ret |-> check_entry_allowed(risk, regime, st)]
    /\ UNCHANGED <<risk, envVars, traderVars, loop, scanVars,
                   n_update_pnl, n_closed, n_entries>>

NextRisk ==
    \/ DayAdvance
    \/ \E t \in TradePcts : CallUpdatePnl(t)
    \/ \E b \in Balances, regime \in RegimeInputs, tier \in Tiers :
           CallCalculatePositionSize(b, regime, tier)
    \/ \E regime \in Regimes, st \in StrategyTypes :
           CallCheckEntryAllowed(regime, st)

SpecRisk == InitRisk /\ [][NextRisk]_vars

(***************************************************************************)
(* The scanner driven directly: scans of any symbols with the clock        *)
(* advancing in between.                                                   *)
(***************************************************************************)
InitScan == InitCommon /\ mode = "paper"

\* the symbols of this call whose candles are fetched (no cooldown is
\* running), are at least 20 and have a relative volume below 3.0
QuietlyScanned(symbols, dfs) ==
    { sym \in symbols :
        /\ LET state == IF sym \in DOMAIN states THEN states[sym] ELSE ScannerState
           IN  ~(state.is_exhausted /\ ~cooldown_over(state, clock))
        /\ dfs[sym].n >= MinCandles
        /\ ~RelVolAtLeast(dfs[sym], spike_threshold) }

\* scanner.scan(symbols)
CallScan(symbols) ==
    /\ \E dfs \in [symbols -> Frames] :
          LET sc == scan(states, symbols, clock, dfs)
          IN  /\ states' = sc.states
              /\ detected_at' = Detected(sc.marked, clock)
              /\ last_call' = [op |-> "scan", symbols |-> symbols,
                               results |-> sc.results, cleared |-> sc.cleared,
                               quiet |-> QuietlyScanned(symbols, dfs)]
    /\ UNCHANGED <<risk, envVars, traderVars, loop,
                   n_update_pnl, n_closed, n_entries>>

NextScan ==
    \/ ClockAdvance
    \/ \E symbols \in SUBSET Symbols : CallScan(symbols)

SpecScan == InitScan /\ [][NextScan]_vars

(***************************************************************************)
(* Claims about the Risk Manager, checked under SpecRisk.                  *)
(***************************************************************************)
\* -5% in units of 1/PnlScale
FivePctLoss == -5 * (PnlScale \div 100)

LimitReached(r) == r.daily_pnl_pct <= FivePctLoss \/ r.consecutive_losses >= 4

\* C1: an update_pnl call made on the day of the last reset by an ACTIVE
\* manager halts trading if and only if, after the call, daily_pnl_pct <= -5%
\* or consecutive_losses >= 4; before the call neither limit was reached, so
\* the halting call is the first one after which a limit holds.
C1_HaltExactlyAtLimit ==
    [][ ( /\ n_update_pnl' = n_update_pnl + 1
          /\ ~risk.is_trading_halted
          /\ risk.last_reset_date = today )
        => /\ risk'.is_trading_halted <=> LimitReached(risk')
           /\ ~LimitReached(risk) ]_vars

\* C1 witness: -2% then -3% on one day; the second call halts at exactly -5%.
C1_Witness ==
    /\ last_call.op = "update_pnl"
    /\ last_call.trade_pnl_pct = -30000
    /\ n_update_pnl = 2
    /\ risk.daily_pnl_pct = FivePctLoss
    /\ risk.consecutive_losses = 2
    /\ risk.is_trading_halted

\* C2: a halted manager whose last reset was today (the halt was incurred
\* today) is still halted after any operation made while the date stays the
\* same.
C2_HaltedStaysHaltedSameDay ==
    [][ ( /\ risk.is_trading_halted
          /\ risk.last_reset_date = today
          /\ today' = today )
        => risk'.is_trading_halted ]_vars

\* C2 witness: a winning trade made while halted has reset the streak and
\* lifted daily_pnl_pct above -5%, and trading is still halted.
C2_Witness ==
    /\ last_call.op = "update_pnl"
    /\ last_call.trade_pnl_pct > 0
    /\ risk.is_trading_halted
    /\ risk.last_reset_date = today
    /\ risk.consecutive_losses = 0
    /\ risk.daily_pnl_pct > FivePctLoss

\* C3: the first operation made after the date has advanced past
\* last_reset_date sees the manager ACTIVE with zeroed counters: update_pnl
\* counts only its own trade, calculate_position_size sizes as an ACTIVE
\* manager with no losses, and check_entry_allowed returns true.
C3_FirstCallAfterDateChangeSeesReset ==
    [][ ( /\ today' = today
          /\ today > risk.last_reset_date
          /\ last_call' # last_call )
        => /\ last_call'.op = "update_pnl" =>
                /\ risk'.daily_pnl_pct = last_call'.trade_pnl_pct
                /\ risk'.consecutive_losses
                     = (IF last_call'.trade_pnl_pct < 0 THEN 1 ELSE 0)
           /\ last_call'.op = "calculate_position_size" =>
                /\ ~risk'.is_trading_halted
                /\ risk'.daily_pnl_pct = 0
                /\ risk'.consecutive_losses = 0
           /\ last_call'.op = "check_entry_allowed" =>
                last_call'.ret = TRUE ]_vars

\* a step that is a call of update_pnl
UpdatePnlStep == last_call'.op = "update_pnl" /\ n_update_pnl' = n_update_pnl + 1

\* C24: update_pnl first applies the daily reset (when the date is past
\* last_reset_date the counters it starts from are zero and the halt flag
\* is off), then adds trade_pct to daily_pnl_pct, then increments
\* consecutive_losses if trade_pct < 0 and zeroes it otherwise (also for
\* trade_pct = 0), then evaluates the halt conditions on the new values; so
\* the first trade closed after a date change counts only toward the new
\* day's PnL and streak.
C24_UpdatePnlOrder ==
    [][ UpdatePnlStep =>
          LET t      == last_call'.trade_pnl_pct
              stale  == today > risk.last_reset_date
              pnl0   == IF stale THEN 0 ELSE risk.daily_pnl_pct
              loss0  == IF stale THEN 0 ELSE risk.consecutive_losses
              halt0  == IF stale THEN FALSE ELSE risk.is_trading_halted
          IN  /\ risk'.last_reset_date = (IF stale THEN today
                                                   ELSE risk.last_reset_date)
              /\ risk'.daily_pnl_pct = pnl0 + t
              /\ risk'.consecutive_losses = (IF t < 0 THEN loss0 + 1 ELSE 0)
              /\ risk'.is_trading_halted
                   <=> (halt0 \/ LimitReached(risk'))
              /\ stale => /\ risk'.daily_pnl_pct = t
                          /\ risk'.consecutive_losses \in {0, 1} ]_vars

\* C24 witness: the first update_pnl after a date change has just counted
\* a losing trade: the day's PnL is that trade alone, the streak is 1 and
\* trading is not halted, after earlier updates on the day before.
C24_Witness ==
    /\ last_call.op = "update_pnl"
    /\ last_call.was_stale
    /\ last_call.trade_pnl_pct < 0
    /\ n_update_pnl >= 3
    /\ risk.daily_pnl_pct = last_call.trade_pnl_pct
    /\ risk.consecutive_losses = 1
    /\ risk.last_reset_date = today
    /\ ~risk.is_trading_halted

\* the sizing fraction the specification gives, in 1/PctScale
ExpectedPct(regime, tier, losses) ==
    LET base == IF tier = "L1" THEN 3000 ELSE 1500
        rf   == IF regime = "BULL" THEN 12 ELSE IF regime = "BEAR" THEN 5 ELSE 10
        lf   == IF losses = 2 THEN 8 ELSE IF losses = 3 THEN 5 ELSE 10
    IN  (base * rf * lf) \div 100

C5_SizeFormula ==
    ( /\ last_call.op = "calculate_position_size"
      /\ last_call.regime \in Regimes
      /\ ~risk.is_trading_halted
      /\ last_call.ret >= 6000 )
    => last_call.ret
         = MulDiv(last_call.account_balance,
                  ExpectedPct(last_call.regime, last_call.symbol_tier,
                              risk.consecutive_losses),
                  PctScale)

\* C5 witness: balance 10,000,000, BULL, L1, no losses gives 360,000.
C5_Witness ==
    /\ last_call.op = "calculate_position_size"
    /\ last_call.account_balance = 10000000
    /\ last_call.regime = "BULL"
    /\ last_call.symbol_tier = "L1"
    /\ risk.consecutive_losses = 0
    /\ ~risk.is_trading_halted
    /\ last_call.ret = 360000

\* C32: in every state reachable through update_pnl,
\* calculate_position_size and check_entry_allowed calls with date changes
\* in between, consecutive_losses >= 4 implies is_trading_halted and
\* daily_pnl_pct <= -5% implies is_trading_halted; so a sizing call made now
\* reaches the loss-streak factor (it is not halted after its daily reset)
\* only with a streak below 4.
C32_LimitImpliesHalted ==
    /\ risk.consecutive_losses >= 4 => risk.is_trading_halted
    /\ risk.daily_pnl_pct <= FivePctLoss => risk.is_trading_halted
    /\ LET r0 == reset_daily_if_needed(risk, today)
       IN  ~r0.is_trading_halted => r0.consecutive_losses < 4

\* C32 witness: after four losses of 1% on one day (-4% in all, above the
\* daily limit) the manager is halted and a sizing call on a large balance
\* has returned 0 without reaching the loss-streak factor.
C32_Witness ==
    /\ last_call.op = "calculate_position_size"
    /\ last_call.account_balance = 10000000
    /\ last_call.ret = 0
    /\ risk.consecutive_losses = 4
    /\ risk.daily_pnl_pct = -40000
    /\ risk.is_trading_halted
    /\ risk.last_reset_date = today

(***************************************************************************)
(* Claims about the trader and the orchestration loop, checked under Spec. *)
(***************************************************************************)
\* C6: every exit that removes a position from the position map invokes
\* update_pnl exactly once, in paper and in live mode, and update_pnl is
\* invoked at no other time: the two counts agree in every state.
C6_UpdatePnlOncePerClosedTrade == n_update_pnl = n_closed

\* a step in which the loop handles a BUY signal
BuyStep == last_call'.op = "buy" /\ loop'.pending # loop.pending

HaltedToday == risk.is_trading_halted /\ risk.last_reset_date = today

\* C7: while the manager is halted and the date has not advanced,
\* check_entry_allowed returns false, _entry creates no position, places no
\* order and leaves the paper balance alone for every signal, and so does
\* every BUY signal the loop handles; while not halted check_entry_allowed
\* returns true for every regime and strategy type.
C7_HaltedBlocksEntries ==
    /\ [](HaltedToday =>
            /\ \A regime \in Regimes, st \in StrategyTypes :
                   check_entry_allowed(risk, regime, st) = FALSE
            /\ \A symbol \in Symbols, price \in EntryPrices,
                  regime \in Regimes, st \in StrategyTypes,
                  live_balance \in LiveBalances, order_ok \in BOOLEAN :
                   LET e == entry(Trader, today, symbol, price, regime, "L1",
                                  "VOLTX_" \o st, live_balance, order_ok)
                   IN  /\ e.ret = FALSE
                       /\ e.orders = 0
                       /\ e.trader.positions = positions
                       /\ e.trader.paper_balance = paper_balance)
    /\ [](~risk.is_trading_halted =>
            \A regime \in Regimes, st \in StrategyTypes :
                check_entry_allowed(risk, regime, st) = TRUE)
    /\ [][ (BuyStep /\ HaltedToday)
           => /\ last_call'.ret = FALSE
              /\ last_call'.orders = 0
              /\ positions' = positions
              /\ paper_balance' = paper_balance ]_vars

\* C7 witness: trading was halted today and a BUY signal that passed the
\* cooldown gate has been turned away by the risk gate.
C7_Witness ==
    /\ last_call.op = "buy"
    /\ last_call.gate = "risk"
    /\ HaltedToday
    /\ positions = EmptyDict

\* C8: positions are never overwritten (as many symbols are held as
\* positions were created and not yet removed), and a BUY for a symbol that
\* has an open position is rejected with the position map, the paper balance
\* and the risk counters unchanged and no order placed.
C8_OnePositionPerSymbol ==
    /\ [](Cardinality(DOMAIN positions) = n_entries - n_closed)
    /\ [][ (BuyStep /\ last_call'.symbol \in DOMAIN positions)
           => /\ last_call'.ret = FALSE
              /\ last_call'.orders = 0
              /\ positions' = positions
              /\ paper_balance' = paper_balance
              /\ risk' = risk ]_vars

\* C8 witness: in one tick DipStrategy's BUY opened a position and
\* VolatilityBreakoutStrategy's BUY for the same symbol passed the risk gate
\* and was rejected by _entry.
C8_Witness ==
    /\ last_call.op = "buy"
    /\ last_call.strategy = "VBS"
    /\ last_call.gate = "executed"
    /\ last_call.was_held
    /\ last_call.ret = FALSE
    /\ last_call.symbol \in DOMAIN positions
    /\ positions[last_call.symbol].strategy_name = "VOLTX_DIP"
    /\ n_entries = 1
    /\ n_closed = 0
    /\ loop.now = 0

(***************************************************************************)
(* Claims about the scanner, checked under SpecScan.                       *)
(***************************************************************************)
\* a step that is a call of scan
ScanStep == last_call'.op = "scan" /\ <<states, last_call>>' # <<states, last_call>>

\* symbol sym is scanned in this step, was marked exhausted before it, and
\* the flag is still set when the scan starts
ScansExhausted(sym) ==
    /\ sym \in last_call'.symbols
    /\ sym \in DOMAIN detected_at
    /\ states[sym].is_exhausted

\* the scan of this step reset the flag of sym and analysed its candles
ClearedAndEvaluated(sym) ==
    /\ sym \in last_call'.cleared
    /\ \/ ~states'[sym].is_exhausted /\ last_call'.results[sym] # "EXHAUSTED"
       \/ detected_at'[sym] = clock

\* C9: every scan of a symbol made less than 60 minutes after the symbol
\* was marked exhausted reports EXHAUSTED and leaves its state as it was.
C9_ExhaustedPersists ==
    [][ ScanStep =>
          \A sym \in last_call'.symbols :
              (sym \in DOMAIN detected_at /\ clock - detected_at[sym] < 60)
                  => /\ last_call'.results[sym] = "EXHAUSTED"
                     /\ states'[sym] = states[sym]
                     /\ states[sym].is_exhausted ]_vars

\* C9 witness: a scan made 59 minutes after a symbol was marked exhausted
\* has reported EXHAUSTED for it.
C9_Witness ==
    /\ last_call.op = "scan"
    /\ \E sym \in last_call.symbols :
          /\ sym \in DOMAIN detected_at
          /\ clock - detected_at[sym] = 59
          /\ last_call.results[sym] = "EXHAUSTED"
          /\ states[sym].is_exhausted

\* C10 as stated: the first scan made 60 minutes or more after the symbol
\* was marked exhausted, exactly 60 minutes included, resets the flag and
\* analyses the symbol again.
C10_ClearedFromSixtyMinutes ==
    [][ ScanStep =>
          \A sym \in Symbols :
              (ScansExhausted(sym) /\ clock - detected_at[sym] >= 60)
                  => ClearedAndEvaluated(sym) ]_vars

\* C10 amended: the first scan made more than 60 minutes after the symbol
\* was marked exhausted resets the flag and analyses the symbol again; a
\* scan made exactly 60 minutes after it still reports EXHAUSTED and leaves
\* the flag set.
C10_ClearedAfterSixtyMinutes ==
    [][ ScanStep =>
          \A sym \in Symbols :
              ScansExhausted(sym) =>
                  /\ clock - detected_at[sym] > 60 => ClearedAndEvaluated(sym)
                  /\ clock - detected_at[sym] = 60 =>
                        /\ last_call'.results[sym] = "EXHAUSTED"
                        /\ states'[sym].is_exhausted
                        /\ sym \notin last_call'.cleared ]_vars

\* C10 witness: a scan made 61 minutes after a symbol was marked exhausted
\* has reset its flag and reported a status other than EXHAUSTED.
C10_Witness ==
    /\ last_call.op = "scan"
    /\ \E sym \in last_call.cleared :
          /\ clock - detected_at[sym] = 61
          /\ ~states[sym].is_exhausted
          /\ last_call.results[sym] # "EXHAUSTED"

\* the candles df make a climax with overbought RSI: at least 20 candles,
\* relative volume >= 5.0, upper shadow >= 50% of the range or a drop from
\* the high >= 3%, and RSI(14) >= 70
ExhaustionCandles(df) ==
    /\ df.n >= 20
    /\ df.volume >= 5 * (IF df.prev_vol_avg = 0 THEN 1 ELSE df.prev_vol_avg)
    /\ \/ /\ df.high > df.low
          /\ 10 * (df.high - (IF df.close > df.open THEN df.close ELSE df.open))
                >= 5 * (df.high - df.low)
       \/ 100 * (df.high - df.close) >= 3 * df.high
    /\ df.rsi >= 70

\* sym is in an active cooldown when the scan of this step starts
InCooldown(sym) ==
    /\ sym \in DOMAIN states
    /\ states[sym].is_exhausted
    /\ clock <= states[sym].exhausted_until

StateOf(sym) == IF sym \in DOMAIN states THEN states[sym] ELSE ScannerState

\* fetch_ohlcv returned an empty series or fewer than 20 candles
ShortSeries(df) == df.n < MinCandles

\* C22: in every reachable scanner state and at every clock reading, the
\* scan of a symbol whose fetched series is empty or shorter than 20 candles
\* reports NORMAL and leaves the symbol's state (volume_spike,
\* volume_climax, is_exhausted, exhausted_until) exactly as it was.
C22_ShortSeriesKeepsState ==
    \A sym \in Symbols, df \in Frames :
        LET sc == scan(states, {sym}, clock, [x \in {sym} |-> df])
        IN  (ShortSeries(df) /\ ~InCooldown(sym)) =>
              /\ sc.results[sym] = "NORMAL"
              /\ sc.states[sym] = StateOf(sym)

\* C22 as the code has it: the scan of a symbol whose fetched series is
\* empty or shorter than 20 candles reports NORMAL and leaves volume_spike,
\* volume_climax and exhausted_until as they were; is_exhausted is False
\* after the call, because an exhaustion whose cooldown has expired is
\* cleared before the candles are fetched.
C22_ShortSeriesClearsOnlyExpiredExhaustion ==
    \A sym \in Symbols, df \in Frames :
        LET sc == scan(states, {sym}, clock, [x \in {sym} |-> df])
        IN  (ShortSeries(df) /\ ~InCooldown(sym)) =>
              /\ sc.results[sym] = "NORMAL"
              /\ sc.states[sym] = [StateOf(sym) EXCEPT !.is_exhausted = FALSE]

\* C22 witness: a scan has just reported NORMAL for a symbol whose
\* volume_spike flag is set, which only a short series does, and it cleared
\* the symbol's expired exhaustion on the way.
C22_Witness ==
    /\ last_call.op = "scan"
    /\ \E sym \in last_call.symbols :
          /\ last_call.results[sym] = "NORMAL"
          /\ sym \in last_call.cleared
          /\ states[sym].volume_spike
          /\ states[sym].volume_climax
          /\ ~states[sym].is_exhausted
          /\ clock > states[sym].exhausted_until

\* the candles of df do not set volume_spike (nor volume_climax) anew
SetsNoFlag(df) == ShortSeries(df) \/ ~RelVolAtLeast(df, spike_threshold)

\* C23: volume_spike and volume_climax are sticky and decay only with the
\* exhaustion cooldown: in every reachable scanner state and at every clock
\* reading, a scan that does not end a cooldown leaves a set flag set, and
\* a scan that ends the cooldown of a symbol clears both flags (so they are
\* unset after it unless its candles set them again).
C23_FlagsClearedOnlyByCooldownExpiry ==
    \A sym \in Symbols, df \in Frames :
        LET sc == scan(states, {sym}, clock, [x \in {sym} |-> df])
        IN  /\ sym \notin sc.cleared =>
                 /\ StateOf(sym).volume_spike => sc.states[sym].volume_spike
                 /\ StateOf(sym).volume_climax => sc.states[sym].volume_climax
            /\ (sym \in sc.cleared /\ SetsNoFlag(df)) =>
                 /\ ~sc.states[sym].volume_spike
                 /\ ~sc.states[sym].volume_climax

\* the statuses a scan reports for a symbol that is or has been active
ActiveStatuses == {"TREND_ACTIVE", "EXHAUSTED"}

\* volume_spike, once set for a symbol, stays set
SpikeStays ==
    \A sym \in DOMAIN states :
        states[sym].volume_spike =>
            sym \in DOMAIN states' /\ states'[sym].volume_spike

\* every scan of a symbol whose volume_spike is set, with at least 20
\* candles, reports TREND_ACTIVE or EXHAUSTED
SpikeNeverNormal ==
    \A sym \in Symbols, df \in Frames :
        LET sc == scan(states, {sym}, clock, [x \in {sym} |-> df])
        IN  (StateOf(sym).volume_spike /\ df.n >= 20) =>
              /\ sc.results[sym] \in ActiveStatuses
              /\ sc.states[sym].volume_spike

\* C31: once volume_spike has been set for a symbol it stays set, and no
\* later scan of that symbol with at least 20 candles reports NORMAL: each
\* such scan reports TREND_ACTIVE or EXHAUSTED, whatever the relative volume
\* of its candles and whether or not an exhaustion cooldown has expired.
C31_SpikeNeverNormalAgain == []SpikeNeverNormal /\ [][SpikeStays]_vars

\* C31 witness: a scan made after the exhaustion cooldown of a symbol
\* expired, on at least 20 candles with a relative volume below 3.0, has
\* cleared the exhaustion and reported TREND_ACTIVE.
C31_Witness ==
    /\ last_call.op = "scan"
    /\ \E sym \in last_call.quiet :
          /\ sym \in last_call.cleared
          /\ clock > states[sym].exhausted_until
          /\ states[sym].volume_spike
          /\ ~states[sym].is_exhausted
          /\ last_call.results[sym] = "TREND_ACTIVE"

\* C33: in every reachable scanner state of every symbol, is_exhausted
\* implies that exhausted_until is set, is_exhausted implies volume_climax,
\* and volume_climax implies volume_spike.
C33_ScannerFlagsNested ==
    \A sym \in DOMAIN states :
        /\ states[sym].is_exhausted => states[sym].has_until
        /\ states[sym].is_exhausted => states[sym].volume_climax
        /\ states[sym].volume_climax => states[sym].volume_spike

\* C33 witness: a scan has marked a symbol exhausted for the second time,
\* after its first cooldown expired: all three flags are set and
\* exhausted_until is 60 minutes ahead.
C33_Witness ==
    /\ last_call.op = "scan"
    /\ \E sym \in last_call.cleared :
          /\ states[sym].is_exhausted
          /\ states[sym].has_until
          /\ states[sym].exhausted_until = clock + 60
          /\ states[sym].volume_climax
          /\ states[sym].volume_spike

(***************************************************************************)
(* Claims about the strategies and the regime analyzer, checked under      *)
(* SpecSignal.                                                             *)
(***************************************************************************)
\* C12: DipStrategy.check_signal returns no signal whenever scanner_status
\* is EXHAUSTED, for every frame and every regime.
C12_DipSilentWhenExhausted ==
    (last_call.op = "dip_check_signal" /\ last_call.scanner_status = "EXHAUSTED")
        => last_call.signal.action = "NONE"

\* C12 witness: a call with EXHAUSTED returned no signal on a frame that
\* passes every other filter and gives a BUY when the status is NORMAL.
C12_Witness ==
    /\ last_call.op = "dip_check_signal"
    /\ last_call.scanner_status = "EXHAUSTED"
    /\ last_call.signal.action = "NONE"
    /\ last_call.df.n >= 30
    /\ last_call.df.ema12 > last_call.df.ema26
    /\ last_call.df.close = 970
    /\ last_call.df.open = 970
    /\ last_call.df.rsi = 35
    /\ last_call.df.bb_lower = 960
    /\ dip_check_signal(last_call.df, last_call.regime, "NORMAL").action = "BUY"

\* the five filters of the dip strategy on frame df in the given regime:
\* EMA(12) > EMA(26); drop from the 20-candle high >= 2.0% (BULL), 2.5%
\* (FLAT), 3.0% (BEAR); RSI(14) <= 45, 40, 35; low within 0.5% of the lower
\* Bollinger band; reversal candle
FiveFilters(df, regime) ==
    LET drop_min == IF regime = "BULL" THEN 20 ELSE IF regime = "FLAT" THEN 25 ELSE 30
        rsi_max  == IF regime = "BULL" THEN 45 ELSE IF regime = "FLAT" THEN 40 ELSE 35
    IN  /\ df.ema12 > df.ema26
        /\ (df.recent_high - df.close) * 1000 >= drop_min * df.recent_high
        /\ df.rsi <= rsi_max
        /\ df.low * 1000 <= df.bb_lower * 1005
        /\ \/ df.close >= df.open
           \/ (IF df.close < df.open THEN df.close ELSE df.open) - df.low
                 > 2 * (df.open - df.close)

C13_VbsOnlyBullTrendActive ==
    last_call.op = "vbs_check_signal" =>
        /\ last_call.signal.action = "BUY" =>
              (last_call.regime = "BULL" /\ last_call.scanner_status = "TREND_ACTIVE")
        /\ (last_call.regime \in {"FLAT", "BEAR"}
              \/ last_call.scanner_status \in {"NORMAL", "EXHAUSTED"})
              => last_call.signal.action = "NONE"

\* C13 witness: a call in BULL with TREND_ACTIVE has returned a BUY.
C13_Witness ==
    /\ last_call.op = "vbs_check_signal"
    /\ last_call.signal.action = "BUY"
    /\ last_call.regime = "BULL"
    /\ last_call.scanner_status = "TREND_ACTIVE"
    /\ last_call.signal.price = last_call.df.close

\* the close 24 hours and 72 hours before the last candle: the 7th and the
\* 19th candle from the end, or the oldest candle when the series is shorter
Close24hAgo(closes) ==
    IF Len(closes) >= 7 THEN closes[Len(closes) - 6] ELSE closes[1]

Close72hAgo(closes) ==
    IF Len(closes) >= 19 THEN closes[Len(closes) - 18] ELSE closes[1]

\* ret_24h > 0.03 or ret_72h > 0.05
BullReturns(closes) ==
    LET cur == closes[Len(closes)]
    IN  \/ (cur - Close24hAgo(closes)) * 100 > 3 * Close24hAgo(closes)
        \/ (cur - Close72hAgo(closes)) * 100 > 5 * Close72hAgo(closes)

\* ret_24h < -0.03 or ret_72h < -0.05
BearReturns(closes) ==
    LET cur == closes[Len(closes)]
    IN  \/ (cur - Close24hAgo(closes)) * 100 < -3 * Close24hAgo(closes)
        \/ (cur - Close72hAgo(closes)) * 100 < -5 * Close72hAgo(closes)

\* the type and factor (in tenths) the classification rule gives
ExpectedRegime(closes) ==
    IF BullReturns(closes) THEN <<"BULL", 12>>
    ELSE IF BearReturns(closes) THEN <<"BEAR", 5>>
    ELSE <<"FLAT", 10>>

\* C14: with at least 6 candles analyze returns BULL with factor 1.2 if
\* ret_24h > 0.03 or ret_72h > 0.05, otherwise BEAR with factor 0.5 if
\* ret_24h < -0.03 or ret_72h < -0.05, otherwise FLAT with factor 1.0; BULL
\* wins when both hold and the boundary values do not qualify.
C14_RegimeClassification ==
    (last_call.op = "analyze" /\ Len(last_call.closes) >= 6) =>
        /\ ~last_call.result.raised
        /\ <<last_call.result.type, last_call.result.factor>>
              = ExpectedRegime(last_call.closes)
        /\ last_call.result.details = "filled"

\* C14 witness: analyze returned BULL on a series whose 24h return is above
\* 3% while its 72h return is below -5%.
C14_Witness ==
    /\ last_call.op = "analyze"
    /\ Len(last_call.closes) = 20
    /\ last_call.closes[20] = 100
    /\ last_call.closes[14] = 90
    /\ last_call.closes[2] = 110
    /\ last_call.result.type = "BULL"
    /\ last_call.result.factor = 12

\* C15: with an empty series or fewer than 6 candles analyze returns FLAT,
\* factor 1.0 and empty details without raising; with 6 to 18 candles it
\* does not raise and classifies with the oldest candle in place of the
\* missing 24h / 72h lookback.
C15_RegimeSoftFail ==
    last_call.op = "analyze" =>
        /\ ~last_call.result.raised
        /\ Len(last_call.closes) < 6 =>
              /\ last_call.result.type = "FLAT"
              /\ last_call.result.factor = 10
              /\ last_call.result.details = "empty"
        /\ Len(last_call.closes) \in 6..18 =>
              <<last_call.result.type, last_call.result.factor>>
                  = ExpectedRegime(last_call.closes)

\* C15 witness: on 18 candles whose 24h return is 0 analyze returned BEAR,
\* from the oldest close standing in for the missing 72h lookback.
C15_Witness ==
    /\ last_call.op = "analyze"
    /\ Len(last_call.closes) = 18
    /\ last_call.closes[18] = 100
    /\ last_call.closes[12] = 100
    /\ last_call.closes[1] = 110
    /\ last_call.result.type = "BEAR"
    /\ ~last_call.result.raised

(***************************************************************************)
(* Claims about position management and the entry gates, checked under     *)
(* Spec.                                                                   *)
(***************************************************************************)
\* a step in which the loop looks at one held position
ManageStep == last_call'.op = "manage" /\ loop'.held_symbols # loop.held_symbols

\* the position looked at in a ManageStep, as it was before the step
ManagedPosition == positions[last_call'.symbol]

\* at most one exit is executed in a ManageStep and the position is not
\* looked at again in the tick
OneExitPerTick ==
    /\ last_call'.signal \in {"SL", "TP", "NONE"}
    /\ last_call'.orders <= 1
    /\ last_call'.closed <= 1
    /\ last_call'.signal = "NONE" => (last_call'.orders = 0 /\ last_call'.closed = 0)
    /\ last_call'.symbol \notin loop'.held_symbols
    /\ Cardinality(loop'.held_symbols) = Cardinality(loop.held_symbols) - 1

\* C16 as stated: for every held position the hard stop-loss, PnL from
\* entry at or below -1.5%, is tested first, so the exit executed is the
\* stop-loss exactly when it holds, and at most one exit is executed for the
\* position in the tick.
C16_HardStopFirstInclusive ==
    [][ ManageStep =>
          /\ last_call'.signal = "SL"
                <=> (last_call'.price - ManagedPosition.entry_price) * 1000
                        <= -15 * ManagedPosition.entry_price
          /\ OneExitPerTick ]_vars

\* C16 amended: the hard stop-loss is PnL from entry strictly below -1.5%;
\* it is tested first, so the exit executed is the stop-loss exactly when it
\* holds, a strategy-specific exit is executed only when it does not, and at
\* most one exit is executed for the position in the tick.
C16_HardStopFirstStrict ==
    [][ ManageStep =>
          /\ last_call'.signal = "SL"
                <=> (last_call'.price - ManagedPosition.entry_price) * 1000
                        < -15 * ManagedPosition.entry_price
          /\ OneExitPerTick ]_vars

\* C16 witness: a breakout position was closed by the hard stop-loss at a
\* price that is also below its trailing stop (6% under the entry price).
C16_Witness ==
    /\ last_call.op = "manage"
    /\ last_call.signal = "SL"
    /\ last_call.strategy_name = "VOLTX_VBS"
    /\ last_call.price = 188
    /\ last_call.closed = 1
    /\ last_call.symbol \notin DOMAIN positions

\* the symbol of this BuyStep was sold less than an hour before the tick
SignalCooling ==
    /\ last_call'.symbol \in DOMAIN loop.last_sell_times
    /\ loop.now - loop.last_sell_times[last_call'.symbol] < 60

\* this BuyStep left trader and risk state alone and placed no order
SignalDropped ==
    /\ last_call'.ret = FALSE
    /\ last_call'.orders = 0
    /\ risk' = risk
    /\ positions' = positions
    /\ paper_balance' = paper_balance

\* what the first two gates do with a BUY signal, and what happens to a
\* signal for a symbol without an open position that passes them: position
\* sizing runs, which first brings the daily counters up to date
FirstGatesAndSizing ==
    /\ SignalCooling => (last_call'.gate = "cooldown" /\ SignalDropped)
    /\ (~SignalCooling /\ risk.is_trading_halted)
          => (last_call'.gate = "risk" /\ SignalDropped)
    /\ (~SignalCooling /\ ~risk.is_trading_halted
          /\ last_call'.symbol \notin DOMAIN positions)
          => /\ last_call'.gate = "executed"
             /\ risk'.last_reset_date = today
             /\ last_call'.ret => last_call'.symbol \in DOMAIN positions'

\* C17 as stated: the gates are passed in the order cooldown, risk
\* gatekeeper, position sizing, one-open-position check, so a signal for a
\* held symbol that passes the first two gates has been sized, with the
\* daily counters brought up to date, before it is rejected.
C17_GateOrderSizingBeforeHeldCheck ==
    [][ BuyStep =>
          /\ FirstGatesAndSizing
          /\ (~SignalCooling /\ ~risk.is_trading_halted
                /\ last_call'.symbol \in DOMAIN positions)
                => /\ last_call'.gate = "executed"
                   /\ last_call'.ret = FALSE
                   /\ risk'.last_reset_date = today
                   /\ positions' = positions ]_vars

\* C17 amended: the gates are passed in the order cooldown, risk
\* gatekeeper, one-open-position check, position sizing; a signal rejected
\* at a gate reaches no later gate, so a signal for a held symbol is
\* rejected without position sizing having run (the risk state is left as
\* it was, also when the date has advanced).
C17_GateOrderHeldCheckBeforeSizing ==
    [][ BuyStep =>
          /\ FirstGatesAndSizing
          /\ (~SignalCooling /\ ~risk.is_trading_halted
                /\ last_call'.symbol \in DOMAIN positions)
                => (last_call'.gate = "executed" /\ SignalDropped) ]_vars

\* C17 witness: after the date advanced, a BUY for a held symbol passed the
\* cooldown and risk gates and was rejected with the daily counters not
\* brought up to date.
C17_Witness ==
    /\ last_call.op = "buy"
    /\ last_call.gate = "executed"
    /\ last_call.was_held
    /\ last_call.was_stale
    /\ ~last_call.was_halted
    /\ last_call.ret = FALSE
    /\ today > risk.last_reset_date

\* C18: a position is opened on a symbol only when the symbol was never
\* sold or at least 60 minutes (3600 seconds) have passed since its sale;
\* an exit that removes the position starts the cooldown at the time of the
\* sale, and a step that removes no position (a failed exit, or no exit)
\* leaves the cooldown map as it was.
C18_CooldownAfterSale ==
    /\ [][ (BuyStep /\ last_call'.ret)
             => \/ last_call'.symbol \notin DOMAIN loop.last_sell_times
                \/ clock - loop.last_sell_times[last_call'.symbol] >= 60 ]_vars
    /\ [][ ManageStep =>
             IF last_call'.closed = 1
             THEN /\ last_call'.symbol \in DOMAIN loop'.last_sell_times
                  /\ loop'.last_sell_times[last_call'.symbol] = clock
             ELSE loop'.last_sell_times = loop.last_sell_times ]_vars

\* C18 witness: a position has been opened on a symbol exactly 60 minutes
\* after its previous position was sold.
C18_Witness ==
    /\ last_call.op = "buy"
    /\ last_call.ret
    /\ last_call.symbol \in DOMAIN loop.last_sell_times
    /\ clock - loop.last_sell_times[last_call.symbol] = 60
    /\ n_closed = 1
    /\ n_entries = 2

\* the risk counters: daily PnL, consecutive losses and the halt flag
RiskCounters(r) == <<r.daily_pnl_pct, r.consecutive_losses, r.is_trading_halted>>

\* in this step place_order was called and raised: an order was attempted
\* and the operation returned False
OrderRaised == last_call'.orders = 1 /\ last_call'.ret = FALSE

C20_ZeroPriceSkipsPosition ==
    [][ (ManageStep /\ last_call'.price = 0)
          => /\ last_call'.signal = "NONE"
             /\ last_call'.orders = 0
             /\ positions' = positions
             /\ paper_balance' = paper_balance
             /\ RiskCounters(risk') = RiskCounters(risk) ]_vars


\* the price of this ManageStep is more than 1.5% under the entry price
BelowHardStop ==
    (last_call'.price - ManagedPosition.entry_price) * 1000
        < -15 * ManagedPosition.entry_price

\* the price of this ManageStep is under 97% of the high-water mark
BelowTrailingStop ==
    last_call'.price * 100 < ManagedPosition.highest_price * 97

\* the price of this ManageStep is more than 5% over the entry price
AboveTakeProfit ==
    (last_call'.price - ManagedPosition.entry_price) * 100
        > 5 * ManagedPosition.entry_price

\* C26: the strategy that opened a position selects its exit: for a
\* VOLTX_VBS position an exit is executed exactly when the hard stop-loss
\* or the trailing stop (price below 97% of the high-water mark) holds,
\* whatever the fixed take-profit says; for a position of any other
\* strategy exactly when the hard stop-loss or the fixed +5% take-profit
\* holds, whatever the trailing stop says; and a position leaves the
\* position map only in a step that executed such an exit.
C26_ExitSelectedByStrategy ==
    [][ ManageStep =>
          /\ IF ManagedPosition.strategy_name = "VOLTX_VBS"
             THEN last_call'.signal # "NONE"
                     <=> (BelowHardStop \/ BelowTrailingStop)
             ELSE last_call'.signal # "NONE"
                     <=> (BelowHardStop \/ AboveTakeProfit)
          /\ last_call'.signal = "TP" => ~BelowHardStop
          /\ last_call'.symbol \notin DOMAIN positions'
                => last_call'.signal \in {"SL", "TP"} ]_vars

\* C26 witness: a breakout position whose high-water mark is 212 has just
\* been closed by its trailing stop at 200, its entry price, where neither
\* the hard stop-loss nor the take-profit holds.
C26_Witness ==
    /\ last_call.op = "manage"
    /\ last_call.strategy_name = "VOLTX_VBS"
    /\ last_call.signal = "TP"
    /\ last_call.price = 200
    /\ last_call.closed = 1
    /\ last_call.symbol \notin DOMAIN positions

(***************************************************************************)
(* Claims about interruption, checked under SpecInterrupt.                 *)
(***************************************************************************)

\* C21: an interrupt stops the loop only after the current tick has
\* completed: when the loop has exited, the tick it was in had run all its
\* steps (it was at the heartbeat and sleep, or about to start the next
\* tick, with no strategy call and no held position left to handle) and no
\* order placed in that tick is without its recorded position.
C21_InterruptWaitsForTick ==
    loop.pc = "stopped"
       => /\ last_call.op = "interrupt"
          /\ last_call.at \in {"sleep", "top"}
          /\ last_call.pending = {}
          /\ last_call.held = {}
          /\ last_call.orders = 0


(***************************************************************************)
(* Claims about the loop running for ever, checked under SpecForever.      *)
(***************************************************************************)
\* a BUY signal reaches the risk gatekeeper in this step
GateStep == BuyStep /\ last_call'.gate \in {"risk", "executed"}

\* check_entry_allowed has just admitted a BUY signal
Admitted == last_call.op = "buy" /\ last_call.gate = "executed"

\* trading is halted and the date is past the day of the halt
HaltOutlived == risk.is_trading_halted /\ today > risk.last_reset_date

\* a step that is the top of a tick
TickStep == last_call'.op = "tick" /\ loop.pc = "top" /\ loop'.pc = "strategy"

\* the tick of this step refreshed the universe, the regime
UniverseRefreshed == loop'.last_universe_update = loop'.now
RegimeRefreshed   == loop'.last_regime_update = loop'.now

\* more than 3600 seconds have passed since the last refresh at time last
\* (on the first tick last is datetime.min)
MoreThanAnHourSince(last) == clock - last > 60

\* a tick that does not refresh uses the last computed list, regime
BetweenRefreshesUnchanged ==
    /\ ~UniverseRefreshed =>
          /\ loop'.hot_symbols = loop.hot_symbols
          /\ loop'.last_universe_update = loop.last_universe_update
    /\ ~RegimeRefreshed =>
          /\ loop'.current_regime = loop.current_regime
          /\ loop'.last_regime_update = loop.last_regime_update

\* C28: the universe and the regime are each refreshed on the first tick
\* and thereafter exactly on the ticks where more than 3600 seconds have
\* passed since their own last refresh; a tick between refreshes uses the
\* last computed hot-symbol list and regime type.
C28_RefreshedOnlyAfterAnHour ==
    [][ TickStep =>
          /\ UniverseRefreshed <=> MoreThanAnHourSince(loop.last_universe_update)
          /\ RegimeRefreshed <=> MoreThanAnHourSince(loop.last_regime_update)
          /\ BetweenRefreshesUnchanged ]_vars

\* C28 as the code has it: the regime is refreshed on the first tick and
\* thereafter exactly on the ticks where more than 3600 seconds have passed
\* since its last refresh; the universe is refreshed on those terms and
\* also on every tick that starts with an empty hot-symbol list; a tick
\* that does not refresh uses the last computed list and regime type.
C28_UniverseAlsoRefreshedWhenEmpty ==
    [][ TickStep =>
          /\ UniverseRefreshed
                <=> \/ loop.hot_symbols = {}
                    \/ MoreThanAnHourSince(loop.last_universe_update)
          /\ RegimeRefreshed <=> MoreThanAnHourSince(loop.last_regime_update)
          /\ BetweenRefreshesUnchanged ]_vars

\* C28 witness: a tick has just refreshed the universe 30 minutes after
\* its last refresh, because the hot-symbol list was empty, and has left
\* the regime computed 30 minutes ago in use.
C28_Witness ==
    /\ last_call.op = "tick"
    /\ last_call.was_empty
    /\ last_call.universe_age = 30
    /\ loop.last_universe_update = loop.now
    /\ loop.last_regime_update = loop.now - 30

\* C25: a halt does not outlive its day: on every execution in which BUY
\* signals keep reaching the risk gatekeeper, whenever trading is halted and
\* the date has advanced past the day of the halt, a BUY signal is
\* eventually admitted by check_entry_allowed, whether or not a position
\* was open at the time of the halt.
C25_HaltEndsWithDay ==
    ([]<><<GateStep>>_vars)
       => [](HaltOutlived => <>Admitted)


(***************************************************************************)
(* Claims about FibonacciMorningStrategy, checked under SpecSignal.        *)
(***************************************************************************)
\* the entry conditions of the Fibonacci strategy on what the exchange
\* holds: daily SMA5 > SMA10 > SMA20; an anchor candle with impulse >= 3%;
\* the current price in the inclusive zone between the 0.5 and the 0.382
\* retracement; current volume below 30% of the impulse volume
FibConditions(frame) ==
    /\ frame.daily.n >= 20
    /\ frame.daily.ma5 > frame.daily.ma10
    /\ frame.daily.ma10 > frame.daily.ma20
    /\ frame.m5.has_anchor
    /\ (frame.m5.ref_high - frame.m5.ref_low) * 100 >= 3 * frame.m5.ref_low
    /\ frame.m5.current_price * 1000
          >= frame.m5.ref_high * 1000 - (frame.m5.ref_high - frame.m5.ref_low) * 500
    /\ frame.m5.current_price * 1000
          <= frame.m5.ref_high * 1000 - (frame.m5.ref_high - frame.m5.ref_low) * 382
    /\ frame.m5.current_vol * 10 < frame.m5.impulse_vol * 3

\* C30: called inside its morning window with the repository's exchange
\* client, FibonacciMorningStrategy.check_signal returns a BUY when the
\* entry conditions hold, and returns None without raising in every other
\* case.
C30_FibBuyInWindow ==
    (last_call.op = "fib_check_signal" /\ last_call.frame.in_window) =>
        /\ FibConditions(last_call.frame) => last_call.signal.action = "BUY"
        /\ ~FibConditions(last_call.frame) => last_call.signal.action = "NONE"

(***************************************************************************)
(* Claims about the universe selector, checked under SpecUniverse.         *)
(***************************************************************************)
\* the entries of tickers_data that qualify: not blacklisted, 24h traded
\* value >= 10 billion, at least 24 hourly candles, last close >= the mean
\* of the last 24 closes
Qualifying(tickers_data) ==
    { i \in 1..Len(tickers_data) :
         /\ tickers_data[i].market \notin {"KRW-BTT", "KRW-XEC"}
         /\ tickers_data[i].acc_trade_price_24h >= 10
         /\ tickers_data[i].n >= 24
         /\ tickers_data[i].current_price * 24 >= tickers_data[i].closes24_sum }

\* traded value x volatility of entry t (no volatility counts as 0)
ScoreOf(t) == IF t.volatility = NaN THEN 0 ELSE t.acc_trade_price_24h * t.volatility

\* C29: get_top_movers(limit) returns at most limit distinct symbols, each
\* of them qualifying, in non-increasing order of score, and no qualifying
\* symbol left out has a strictly higher score than a returned one.
C29_TopMoversSelection ==
    last_call.op = "get_top_movers" =>
       LET td  == last_call.tickers_data
           ret == last_call.ret
           at(m) == CHOOSE i \in 1..Len(td) : td[i].market = m
       IN  /\ Len(ret) <= last_call.limit
           /\ \A i, j \in 1..Len(ret) : i # j => ret[i] # ret[j]
           /\ \A i \in 1..Len(ret) :
                 /\ \E k \in 1..Len(td) : td[k].market = ret[i]
                 /\ at(ret[i]) \in Qualifying(td)
           /\ \A i, j \in 1..Len(ret) :
                 i < j => ScoreOf(td[at(ret[i])]) >= ScoreOf(td[at(ret[j])])
           /\ \A k \in Qualifying(td) :
                 (\A i \in 1..Len(ret) : ret[i] # td[k].market)
                    => /\ Len(ret) = last_call.limit
                       /\ \A i \in 1..Len(ret) :
                             ScoreOf(td[k]) <= ScoreOf(td[at(ret[i])])

\* C29 witness: with limit 2 and three qualifying symbols of scores 20, 30
\* and 20, and a blacklisted symbol of score 30, the call has returned the
\* symbol of score 30 and then the first of the two of score 20.
C29_Witness ==
    /\ last_call.op = "get_top_movers"
    /\ last_call.limit = 2
    /\ Qualifying(last_call.tickers_data) = {1, 3, 4}
    /\ last_call.tickers_data[2].acc_trade_price_24h = 30
    /\ last_call.ret = <<"KRW-BBB", "KRW-AAA">>
    /\ ScoreOf(last_call.tickers_data[4]) = 20

(***************************************************************************)
(* Claims about the loop on two markets, checked under SpecPair.           *)
(***************************************************************************)
\* a step that ends the strategy loop and lists the held symbols
ManageBeginStep == last_call'.op = "manage_begin" /\ loop.pc = "strategy" /\ loop'.pc # "strategy"

\* a step that ends the management loop of a tick
UpdatePositionsStep == last_call'.op = "update_positions" /\ loop.pc = "manage" /\ loop'.pc = "sleep"

\* the exit condition of the position looked at in a ManageStep holds at
\* the price fetched: the hard stop-loss, or the exit of its strategy
ExitDue ==
    \/ BelowHardStop
    \/ IF ManagedPosition.strategy_name = "VOLTX_VBS"
       THEN BelowTrailingStop ELSE AboveTakeProfit

\* C34: a trading halt never blocks exits: while the Risk Manager is
\* halted, the management loop of a tick lists every held position, ends
\* only when each of them has been looked at with a fetched price, and
\* closes the position looked at when its hard stop-loss, trailing stop or
\* take-profit condition holds.
C34_HaltNeverBlocksExits ==
    [][ risk.is_trading_halted =>
          /\ ManageBeginStep =>
                /\ loop'.held_symbols = DOMAIN positions
                /\ DOMAIN positions # {} => loop'.pc = "manage"
          /\ (ManageStep /\ ExitDue) =>
                /\ last_call'.signal \in {"SL", "TP"}
                /\ last_call'.closed = 1
                /\ last_call'.symbol \notin DOMAIN positions'
          /\ UpdatePositionsStep =>
                /\ loop.held_symbols = {}
                /\ DOMAIN positions \subseteq DOMAIN loop.current_price_map ]_vars

\* C34 witness: the first exit, a loss of 6%, halted trading while a second
\* position was held; that position has now been closed by its take-profit
\* (a non-losing trade, so the streak is 0) with trading still halted.
C34_Witness ==
    /\ last_call.op = "manage"
    /\ last_call.signal = "TP"
    /\ last_call.closed = 1
    /\ last_call.symbol \notin DOMAIN positions
    /\ n_closed = 2
    /\ risk.consecutive_losses = 0
    /\ risk.is_trading_halted

\* C35: every open position is evaluated for exit on every tick whether or
\* not its symbol is still in the hot-symbol universe: the top of a tick,
\* universe refresh included, leaves the position map as it is; the
\* management loop lists every held symbol and ends only when each has been
\* looked at with a fetched price; and a position whose symbol is not in
\* the universe gets an exit signal exactly when its stop-loss or its
\* strategy's exit condition holds.
C35_ExitsIndependentOfUniverse ==
    [][ /\ TickStep => positions' = positions
        /\ ManageBeginStep =>
              /\ loop'.held_symbols = DOMAIN positions
              /\ DOMAIN positions # {} => loop'.pc = "manage"
        /\ (ManageStep /\ last_call'.symbol \notin loop.hot_symbols) =>
              (last_call'.signal \in {"SL", "TP"} <=> ExitDue)
        /\ UpdatePositionsStep =>
              /\ loop.held_symbols = {}
              /\ DOMAIN positions \subseteq DOMAIN loop.current_price_map ]_vars

\* C35 witness: on the third tick the universe was refreshed and no longer
\* holds the symbol of a position opened before; the position has just been
\* closed by its hard stop-loss.
C35_Witness ==
    /\ last_call.op = "manage"
    /\ last_call.symbol \notin loop.hot_symbols
    /\ loop.last_universe_update = loop.now
    /\ loop.now = 62
    /\ last_call.signal = "SL"
    /\ last_call.closed = 1
    /\ last_call.symbol \notin DOMAIN positions

(***************************************************************************)
(* Claims about the high-water mark and the paper account, checked under   *)
(* Spec.                                                                   *)
(***************************************************************************)
\* the high-water mark of every open position is at least its entry price
MarkAtLeastEntry ==
    \A sym \in DOMAIN positions :
        positions[sym].highest_price >= positions[sym].entry_price

\* in this step the mark of a position that stays held does not decrease,
\* and it changes only in update_positions, to the price fetched in this
\* tick, which is strictly higher
MarkOnlyRaised ==
    \A sym \in DOMAIN positions \cap DOMAIN positions' :
        /\ positions'[sym].highest_price >= positions[sym].highest_price
        /\ positions'[sym].highest_price # positions[sym].highest_price =>
              /\ UpdatePositionsStep
              /\ sym \in DOMAIN loop.current_price_map
              /\ positions'[sym].highest_price = loop.current_price_map[sym]
              /\ loop.current_price_map[sym] > positions[sym].highest_price

\* C36: for every open position, highest_price is at least entry_price and
\* never decreases from one tick to the next while the position is held; it
\* changes only in update_positions and only to a strictly higher observed
\* price.
C36_HighWaterMark == []MarkAtLeastEntry /\ [][MarkOnlyRaised]_vars

\* C36 witness: update_positions has just run for a position whose mark
\* was raised to 212 on an earlier tick and whose price is now 208: the
\* mark is still 212.
C36_Witness ==
    /\ last_call.op = "update_positions"
    /\ \E sym \in DOMAIN positions :
          /\ sym \in DOMAIN loop.current_price_map
          /\ loop.current_price_map[sym] = 208
          /\ positions[sym].entry_price = 200
          /\ positions[sym].highest_price = 212

\* an entry made in the current risk state from any non-negative paper
\* balance b leaves a non-negative balance: a successful one deducts
\* exactly the size calculate_position_size returns, which is at most 3.6%
\* of b, and a rejected one deducts nothing
EntryLeavesBalanceNonNegative ==
    \A b \in Balances, regime \in RegimeInputs, tier \in Tiers, sym \in Symbols :
        LET t    == [Trader EXCEPT !.paper_balance = b]
            res  == entry(t, today, sym, 200, regime, tier, "VOLTX_DIP", 0, TRUE)
            size == calculate_position_size(risk, today, b, regime, tier).ret
            left == res.trader.paper_balance
        IN  /\ left >= 0
            /\ res.ret => (left = b - size /\ size > 0 /\ size * 1000 <= 36 * b)
            /\ ~res.ret => left = b

\* in paper mode the balance is never negative
PaperBalanceNonNegative ==
    mode = "paper" => (paper_balance >= 0 /\ EntryLeavesBalanceNonNegative)

\* in paper mode a step changes the balance only by the size of a
\* successful entry or by the net proceeds of an exit
PaperBalanceSteps ==
    mode = "paper" =>
      /\ BuyStep =>
            IF last_call'.ret
            THEN LET size == calculate_position_size(risk, today, paper_balance,
                                 loop.current_regime, "L1").ret
                 IN  /\ paper_balance' = paper_balance - size
                     /\ size * 1000 <= 36 * paper_balance
                     /\ size * 100 < 5 * paper_balance
            ELSE paper_balance' = paper_balance
      /\ ManageStep =>
            IF last_call'.closed = 1
            THEN LET x == PaperExit(ManagedPosition, last_call'.price)
                 IN  /\ paper_balance' = paper_balance + x.net_proceeds
                     /\ x.net_proceeds >= 0
            ELSE paper_balance' = paper_balance
      /\ ~(BuyStep \/ ManageStep) => paper_balance' = paper_balance

\* C37: in paper mode the balance never becomes negative after any
\* sequence of entries and exits: each successful entry deducts exactly the
\* size returned by calculate_position_size, which is at most 3.6% of the
\* current balance (so the 5% cap never binds), each rejected entry deducts
\* nothing, and each exit adds the net proceeds.
C37_PaperBalanceNeverNegative ==
    []PaperBalanceNonNegative /\ [][PaperBalanceSteps]_vars

\* C37 witness: in paper mode a position opened in a BULL regime for 3.6%
\* of the starting balance has been closed at price 0: the exit added
\* nothing and the balance is the starting balance less the entry size.
C37_Witness ==
    /\ mode = "paper"
    /\ last_call.op = "manage"
    /\ last_call.closed = 1
    /\ last_call.price = 0
    /\ n_closed = 1
    /\ n_entries = 1
    /\ paper_balance = 10000000 - 360000

\* the positive prices the trailing stop is compared at
MaxPrice == 230
PositivePrices == 1..MaxPrice

\* position pos after update_positions has seen price p for it
MarkIncluding(pos, p) ==
    update_positions([x \in {pos.symbol} |-> pos], [x \in {pos.symbol} |-> p])[pos.symbol]

\* C39: update_positions raises the high-water mark only after the exit
\* checks of a tick, yet for every held breakout position and every
\* positive price p the trailing-stop test, and the exit signal with it, is
\* the same as if the mark already included p: p < 0.97 x highest_price
\* holds if and only if p < 0.97 x max(highest_price, p).
C39_TrailingStopSameWithMarkRaised ==
    \A sym \in DOMAIN positions, p \in PositivePrices :
        LET pos == positions[sym]
        IN  pos.strategy_name = "VOLTX_VBS" =>
              /\ MarkIncluding(pos, p).highest_price
                    = (IF p > pos.highest_price THEN p ELSE pos.highest_price)
              /\ TrailingStop(p, pos.highest_price)
                    <=> TrailingStop(p, MarkIncluding(pos, p).highest_price)
              /\ ExitSignal(pos, p) = ExitSignal(MarkIncluding(pos, p), p)

\* C39 witness: the exit checks of a tick have just looked at a breakout
\* position at 212, above its mark of 200, which update_positions has not
\* raised yet, and found no exit.
C39_Witness ==
    /\ last_call.op = "manage"
    /\ last_call.strategy_name = "VOLTX_VBS"
    /\ last_call.price = 212
    /\ last_call.signal = "NONE"
    /\ last_call.symbol \in DOMAIN positions
    /\ positions[last_call.symbol].highest_price = 200

(***************************************************************************)
(* Claims about runs of stop-losses, checked under SpecStops.              *)
(***************************************************************************)
\* the risk counters as update_pnl finds them after its daily reset
RiskToday == reset_daily_if_needed(risk, today)

\* C38: in paper mode every hard-stop-loss exit closes the position and is
\* reported to the Risk Manager once, as a losing trade (net PnL after
\* friction below 0): consecutive_losses becomes the day's streak plus one
\* and the net PnL is added to the day's PnL; and the fourth loss in a row on
\* one day leaves trading halted.
C38_HardStopCountsAsLoss ==
    [][ (mode = "paper" /\ ManageStep /\ BelowHardStop) =>
          LET x == PaperExit(ManagedPosition, last_call'.price)
          IN  /\ last_call'.signal = "SL"
              /\ last_call'.closed = 1
              /\ last_call'.updates = 1
              /\ x.net_pnl_pct < 0
              /\ risk'.consecutive_losses = RiskToday.consecutive_losses + 1
              /\ risk'.daily_pnl_pct = RiskToday.daily_pnl_pct + x.net_pnl_pct
              /\ risk'.consecutive_losses >= 4 => risk'.is_trading_halted ]_vars

\* C38 witness: four positions have been opened and closed in turn, each by
\* its hard stop-loss at -1.51% on the same day; the first three cost less
\* than 5% in all, and the fourth has left a streak of 4 and trading halted.
C38_Witness ==
    /\ mode = "paper"
    /\ last_call.op = "manage"
    /\ last_call.signal = "SL"
    /\ last_call.price = 9849
    /\ n_entries = 4
    /\ n_closed = 4
    /\ today = 0
    /\ risk.consecutive_losses = 4
    /\ risk.daily_pnl_pct > FivePctLoss - 20000
    /\ risk.is_trading_halted

====
